---- MODULE Spec2Model ----
(***************************************************************************)
(* leakhound: detection of struct fields tagged sensitive:"true" reaching  *)
(* a logging call.  The model follows package detector: FieldCollector,    *)
(* VarTracker, LogDetector, DataFlowCollector and the per-argument check   *)
(* CheckArgForSensitiveData.  The typed AST handed over by go/analysis is  *)
(* the input; it is drawn from a corpus of small packages.                 *)
(***************************************************************************)
EXTENDS Integers, Sequences, FiniteSets, TLC

VARIABLES
    prog,             \* the analysis.Pass: files (declarations), config
    pc,               \* "collect" | "dataflow" | "round" | "analyze" | "done"
    declIdx,          \* next top-level declaration collectFromFile visits
    sensitiveFields,  \* FieldCollector.sensitiveFields: set of <<typeName, fieldName>>
    sensitiveVars,    \* VarTracker.sensitiveVars: var object id -> SensitiveSource
    sensitiveFuncs,   \* VarTracker.sensitiveFuncs: func object id -> SensitiveSource
    sensitiveParams,  \* VarTracker.sensitiveParams
    funcDefs,         \* VarTracker.funcDefs: func object id -> FuncDecl
    logCalls,         \* DataFlowCollector.logCalls
    pass,             \* AnalyzeDataFlow: loop counter
    changed,          \* AnalyzeDataFlow: changed flag
    visitedFuncs,     \* VarTracker.visitedFuncs
    pending,          \* functions the range over funcDefs has not yet produced
    callIdx,          \* Analyze: index of the log call being processed
    argIdx,           \* Analyze: index of the argument being processed
    findings,         \* Analyze: allFindings
    aggregated,       \* AggregatingReporter.findings: sequence of FindingWithFset
    written,          \* the SARIF documents encoded to the io.Writer, oldest first
    loaded            \* what ValidateConfig / LoadConfig returned: [config, err]

vars == <<loaded, aggregated, written, prog, pc, declIdx, sensitiveFields, sensitiveVars, sensitiveFuncs,
          sensitiveParams, funcDefs, logCalls, pass, changed, visitedFuncs,
          pending, callIdx, argIdx, findings>>

(***************************************************************************)
(* Generic helpers.                                                        *)
(***************************************************************************)
Range(s) == {s[i] : i \in DOMAIN s}

EmptyMap == [x \in {} |-> x]

MapPut(m, k, v) == [x \in (DOMAIN m) \cup {k} |-> IF x = k THEN v ELSE m[x]]

RECURSIVE Concat(_)
Concat(ss) == IF ss = <<>> THEN <<>> ELSE Head(ss) \o Concat(Tail(ss))

Contains(s, x) == \E i \in DOMAIN s : s[i] = x

\* Frames the recursive field lookup may stack before the run is counted as
\* having exhausted its stack.
MaxStackDepth == 4

Perms(S) == {p \in [1..Cardinality(S) -> S] : \A i, j \in DOMAIN p : i # j => p[i] # p[j]}

(***************************************************************************)
(* go/types: objects and types.                                            *)
(***************************************************************************)
ThisPkg == "main"

NoRecv == [has |-> FALSE, ptr |-> FALSE, tname |-> "", tpkg |-> ""]
PtrRecv(p, t) == [has |-> TRUE, ptr |-> TRUE, tname |-> t, tpkg |-> p]
ValRecv(p, t) == [has |-> TRUE, ptr |-> FALSE, tname |-> t, tpkg |-> p]

\* A types.Object.  kind "nil" is the nil object (an unresolved identifier);
\* pkg "nil" is an object without an owning package.
NilObj == [id |-> "nil", kind |-> "nil", pkg |-> "nil", name |-> "", recv |-> NoRecv]
PkgName(name) == [id |-> "pkg." \o name, kind |-> "pkgname", pkg |-> ThisPkg, name |-> name, recv |-> NoRecv]
VarObj(id, name) == [id |-> id, kind |-> "var", pkg |-> ThisPkg, name |-> name, recv |-> NoRecv]
FuncObj(id, pkg, name, recv) == [id |-> id, kind |-> "func", pkg |-> pkg, name |-> name, recv |-> recv]
LocalFunc(name) == FuncObj(name, ThisPkg, name, NoRecv)

\* The static type of an expression as TypesInfo.Types gives it: known is
\* FALSE when the map has no entry; named is the identity of a *types.Named
\* ("none" for basic and unnamed types), ptr says it is wrapped in one pointer.
NoInfo == [known |-> FALSE, ptr |-> FALSE, named |-> "none"]
Basic == [known |-> TRUE, ptr |-> FALSE, named |-> "none"]
ValT(t) == [known |-> TRUE, ptr |-> FALSE, named |-> t]
PtrT(t) == [known |-> TRUE, ptr |-> TRUE, named |-> t]

\* Struct tags are sequences of key:"value" items.
TagNone == <<>>
TagSensitive == <<"sensitive:\"true\"">>
TagJsonSensitive == <<"json:\"-\"", "sensitive:\"true\"">>
TagSensitiveFalse == <<"sensitive:\"false\"">>
TagJson == <<"json:\"name\"">>

\* quoted: the tag literal is written "..." (with \" inside) instead of `...`.
Fld(name, tag, ty) == [name |-> name, tag |-> tag, embedded |-> FALSE, quoted |-> FALSE, ty |-> ty]
FldQ(name, tag, ty) == [name |-> name, tag |-> tag, embedded |-> FALSE, quoted |-> TRUE, ty |-> ty]
Emb(name, tag, ty) == [name |-> name, tag |-> tag, embedded |-> TRUE, quoted |-> FALSE, ty |-> ty]
\* hasObj is FALSE when named.Obj() is nil.
Struct(pkg, name, fields) ==
    [pkg |-> pkg, name |-> name, isStruct |-> TRUE, fields |-> fields, hasObj |-> TRUE]
NonStruct(pkg, name) ==
    [pkg |-> pkg, name |-> name, isStruct |-> FALSE, fields |-> <<>>, hasObj |-> TRUE]
NoObjStruct(fields) ==
    [pkg |-> "nil", name |-> "", isStruct |-> TRUE, fields |-> fields, hasObj |-> FALSE]

(***************************************************************************)
(* go/ast: expressions and statements.  pos is the node's token.Pos.       *)
(***************************************************************************)
\* Identifier in use position: TypesInfo.Uses[id] = obj.
Id(pos, obj, ty) == [k |-> "ident", pos |-> pos, name |-> obj.name, obj |-> obj, def |-> FALSE, ty |-> ty]
\* Identifier in defining position: TypesInfo.Defs[id] = obj.
Def(pos, obj) == [k |-> "ident", pos |-> pos, name |-> obj.name, obj |-> obj, def |-> TRUE, ty |-> NoInfo]
\* x.f; obj is TypesInfo.Uses[f]: a field, or the function or method selected.
\* A node's Pos() is the position of its first token, so x.f starts where x
\* starts and f(a) starts where f starts.
Sel(x, f, obj, ty) == [k |-> "sel", pos |-> x.pos, x |-> x, f |-> f, obj |-> obj, ty |-> ty]
Call(fun, args, ty) == [k |-> "call", pos |-> fun.pos, fun |-> fun, args |-> args, ty |-> ty]
Lit(pos) == [k |-> "lit", pos |-> pos, ty |-> Basic]
Unary(pos, x, ty) == [k |-> "unary", pos |-> pos, x |-> x, ty |-> ty]
FuncLit(pos, body) == [k |-> "funclit", pos |-> pos, body |-> body, ty |-> Basic]
Assign(lhs, rhs) == [k |-> "assign", lhs |-> lhs, rhs |-> rhs]
Return(results) == [k |-> "return", results |-> results]
ExprStmt(x) == [k |-> "exprstmt", x |-> x]
Block(body) == [k |-> "block", body |-> body]

Uses(id) == IF id.def THEN NilObj ELSE id.obj
Defs(id) == IF id.def THEN id.obj ELSE NilObj

\* Field is one entry of a FieldList: names declared with one type.
ParamGroup(names, variadic) == [names |-> names, variadic |-> variadic]
FuncDecl(obj, params, hasBody, body) ==
    [k |-> "func", obj |-> obj, params |-> params, hasBody |-> hasBody, body |-> body]
TypeSpec(tid) == [k |-> "type", tid |-> tid]
VarDecl(values) == [k |-> "var", values |-> values]

Children(n) ==
    CASE n.k = "sel" -> <<n.x>>
      [] n.k = "unary" -> <<n.x>>
      [] n.k = "call" -> <<n.fun>> \o n.args
      [] n.k = "funclit" -> n.body
      [] n.k = "assign" -> n.lhs \o n.rhs
      [] n.k = "return" -> n.results
      [] n.k = "exprstmt" -> <<n.x>>
      [] n.k = "block" -> n.body
      [] n.k = "var" -> n.values
      [] OTHER -> <<>>

\* The nodes ast.Inspect hands to a callback that always returns true, in order.
RECURSIVE Inspect(_), InspectAll(_)
Inspect(n) == <<n>> \o InspectAll(Children(n))
InspectAll(ns) == IF ns = <<>> THEN <<>> ELSE Inspect(Head(ns)) \o InspectAll(Tail(ns))

(***************************************************************************)
(* The named types the type checker knows, by identity.  Types of package  *)
(* main are declared by a TypeSpec of the analysed package; the others are *)
(* imported.                                                               *)
(***************************************************************************)
TypeIds == {"User", "Config", "SafeConfig", "WrapConfig", "NestedSafeConfig",
            "Cred", "Account", "PtrWrap", "Settings", "Level",
            "other.User", "base.Settings", "ext.Secret",
            "NodeA", "NodeB", "LoopA", "LoopB", "Detached", "HoldsDetached"}

TypeOf(tid) ==
    CASE tid = "User" ->
           Struct("main", "User", <<Fld("Name", TagNone, Basic),
                                    Fld("Password", TagSensitive, Basic)>>)
      [] tid = "Config" ->
           Struct("main", "Config", <<Fld("APIKey", TagJsonSensitive, Basic),
                                      Fld("Region", TagJson, Basic)>>)
      [] tid = "SafeConfig" ->
           Struct("main", "SafeConfig", <<Fld("Name", TagNone, Basic),
                                          Fld("Mode", TagSensitiveFalse, Basic)>>)
      [] tid = "WrapConfig" ->
           Struct("main", "WrapConfig", <<Emb("Config", TagNone, ValT("Config")),
                                          Fld("Description", TagNone, Basic)>>)
      [] tid = "NestedSafeConfig" ->
           Struct("main", "NestedSafeConfig", <<Emb("SafeConfig", TagNone, ValT("SafeConfig")),
                                                Fld("Extra", TagNone, Basic)>>)
      [] tid = "Cred" ->
           Struct("main", "Cred", <<FldQ("Token", TagSensitive, Basic)>>)
      [] tid = "Account" ->
           Struct("main", "Account", <<Fld("Owner", TagNone, Basic),
                                       Fld("Cred", TagSensitive, ValT("Cred"))>>)
      [] tid = "PtrWrap" ->
           Struct("main", "PtrWrap", <<Fld("Note", TagNone, Basic),
                                       Emb("Config", TagNone, PtrT("Config"))>>)
      [] tid = "Settings" ->
           Struct("main", "Settings", <<Emb("Settings", TagNone, ValT("base.Settings")),
                                        Fld("Note", TagNone, Basic)>>)
      [] tid = "Level" -> NonStruct("main", "Level")
      [] tid = "other.User" ->
           Struct("other", "User", <<Fld("Name", TagNone, Basic),
                                     Fld("Password", TagNone, Basic)>>)
      [] tid = "base.Settings" ->
           Struct("base", "Settings", <<Fld("Token", TagSensitive, Basic)>>)
      [] tid = "ext.Secret" ->
           Struct("ext", "Secret", <<Fld("Key", TagJsonSensitive, Basic)>>)
      [] tid = "NodeA" ->
           Struct("main", "NodeA", <<Emb("NodeB", TagNone, PtrT("NodeB")),
                                     Fld("Label", TagNone, Basic)>>)
      [] tid = "NodeB" ->
           Struct("main", "NodeB", <<Emb("NodeA", TagNone, PtrT("NodeA")),
                                     Fld("Secret", TagSensitive, Basic)>>)
      [] tid = "LoopA" ->
           Struct("main", "LoopA", <<Emb("LoopB", TagNone, PtrT("LoopB")),
                                     Fld("Note", TagNone, Basic)>>)
      [] tid = "LoopB" ->
           Struct("main", "LoopB", <<Emb("LoopA", TagNone, PtrT("LoopA")),
                                     Fld("Text", TagNone, Basic)>>)
      [] tid = "Detached" -> NoObjStruct(<<Fld("Key", TagSensitive, Basic)>>)
      [] tid = "HoldsDetached" ->
           Struct("main", "HoldsDetached", <<Emb("Detached", TagNone, ValT("Detached")),
                                             Fld("Note", TagNone, Basic)>>)

(***************************************************************************)
(* FieldCollector.                                                         *)
(***************************************************************************)
SensitiveTrue == "sensitive:\"true\""
SensitiveTrueEscaped == "sensitive:\\\"true\\\""

\* strings.Contains(tag, `sensitive:"true"`) || strings.Contains(tag, `sensitive:\"true\"`)
HasSensitiveTag(tag) ==
    \E i \in DOMAIN tag : tag[i] = SensitiveTrue \/ tag[i] = SensitiveTrueEscaped

\* field.Tag.Value with the back quotes trimmed: the literal as written, so a
\* "..." literal keeps its backslashes.
RawTag(f) ==
    IF f.quoted
    THEN [i \in DOMAIN f.tag |-> IF f.tag[i] = SensitiveTrue THEN SensitiveTrueEscaped ELSE f.tag[i]]
    ELSE f.tag

CollectFromTypeSpec(typeSpec, fields) ==
    LET T == TypeOf(typeSpec.tid) IN
    IF ~T.isStruct THEN fields
    ELSE fields \cup
         {<<T.name, T.fields[i].name>> : i \in
            {j \in DOMAIN T.fields :
               /\ T.fields[j].tag # <<>>
               /\ HasSensitiveTag(RawTag(T.fields[j]))
               /\ ~T.fields[j].embedded}}

hasAnySensitiveFields(typeName, fields) == \E sf \in fields : sf[1] = typeName

\* The result and the visited map as the call leaves it (the map is shared
\* by the whole recursion); panic says that named.Obj().Name() was called on
\* a nil object, which ends the run.
RECURSIVE checkStructForSensitiveFields(_, _), checkStructFieldsFrom(_, _, _)
checkStructForSensitiveFields(named, visited) ==
    LET T == TypeOf(named) IN
    IF ~T.isStruct THEN [res |-> FALSE, visited |-> visited, panic |-> FALSE]
    ELSE IF ~T.hasObj THEN [res |-> FALSE, visited |-> visited, panic |-> TRUE]
    ELSE IF T.name \in visited THEN [res |-> FALSE, visited |-> visited, panic |-> FALSE]
    ELSE checkStructFieldsFrom(named, 1, visited \cup {T.name})
checkStructFieldsFrom(named, i, visited) ==
    LET T == TypeOf(named) IN
    IF i > Len(T.fields) THEN [res |-> FALSE, visited |-> visited, panic |-> FALSE]
    ELSE LET field == T.fields[i] IN
         IF HasSensitiveTag(field.tag) THEN [res |-> TRUE, visited |-> visited, panic |-> FALSE]
         ELSE IF field.embedded /\ field.ty.named # "none"
         THEN LET r == checkStructForSensitiveFields(field.ty.named, visited) IN
              IF r.res \/ r.panic THEN r ELSE checkStructFieldsFrom(named, i + 1, r.visited)
         ELSE checkStructFieldsFrom(named, i + 1, visited)

hasAnySensitiveFieldsFromType(named) == checkStructForSensitiveFields(named, {}).res

\* The walk of hasAnySensitiveFieldsFromType dereferences a nil object.
hasAnySensitiveFieldsFromTypePanics(named) == checkStructForSensitiveFields(named, {}).panic

\* The recursion keeps no visited set; depth counts the frames on the stack
\* and "overflow" is the goroutine stack running out.
RECURSIVE checkSensitiveFieldFromTypeInfoAt(_, _, _), checkFieldFrom(_, _, _, _)
checkSensitiveFieldFromTypeInfoAt(named, fieldName, depth) ==
    LET T == TypeOf(named) IN
    IF ~T.isStruct THEN "false"
    ELSE checkFieldFrom(named, fieldName, 1, depth)
checkFieldFrom(named, fieldName, i, depth) ==
    LET T == TypeOf(named) IN
    IF i > Len(T.fields) THEN "false"
    ELSE LET field == T.fields[i] IN
         IF field.name = fieldName
         THEN (IF HasSensitiveTag(field.tag) THEN "true" ELSE "false")
         ELSE IF field.embedded /\ field.ty.named # "none"
         THEN LET r == IF depth >= MaxStackDepth THEN "overflow"
                       ELSE checkSensitiveFieldFromTypeInfoAt(field.ty.named, fieldName, depth + 1) IN
              IF r = "false" THEN checkFieldFrom(named, fieldName, i + 1, depth) ELSE r
         ELSE checkFieldFrom(named, fieldName, i + 1, depth)

checkSensitiveFieldFromTypeInfo(named, fieldName) ==
    checkSensitiveFieldFromTypeInfoAt(named, fieldName, 1)

(***************************************************************************)
(* VarTracker.  A tracker value t holds the maps of one VarTracker:        *)
(* t.fields, t.vars, t.funcs, t.params.                                    *)
(***************************************************************************)
Tracker(fields, svars, sfuncs, sparams) ==
    [fields |-> fields, vars |-> svars, funcs |-> sfuncs, params |-> sparams]

\* fmt.Sprintf("%s.%s", typeName, fieldName)
FieldNameOf(typeName, fieldName) == <<typeName, ".", fieldName>>
\* fmt.Sprintf("parameter '%s'", name)
ParameterStep(name) == <<"parameter '", name, "'">>

SensitiveSource(fieldName, position, flowPath) ==
    [FieldName |-> fieldName, Position |-> position, FlowPath |-> flowPath]

\* A *SensitiveSource: <<>> is nil, <<s>> points to s.
checkSensitiveFieldAccess(sel, t) ==
    IF ~sel.x.ty.known THEN <<>>
    ELSE IF sel.x.ty.named = "none" THEN <<>>
    ELSE IF ~TypeOf(sel.x.ty.named).hasObj THEN <<>>
    ELSE LET typeName == TypeOf(sel.x.ty.named).name
             fieldName == sel.f IN
         IF <<typeName, fieldName>> \in t.fields
         THEN <<SensitiveSource(FieldNameOf(typeName, fieldName), sel.pos,
                                <<FieldNameOf(typeName, fieldName)>>)>>
         ELSE <<>>

getFunctionObject(fun) ==
    CASE fun.k = "ident" -> Uses(fun)
      [] fun.k = "sel" -> fun.obj
      [] OTHER -> NilObj

checkSensitiveExpr(expr, t) ==
    CASE expr.k = "sel" -> checkSensitiveFieldAccess(expr, t)
      [] expr.k = "ident" ->
           IF Uses(expr).kind = "var" /\ Uses(expr).id \in DOMAIN t.vars
           THEN <<t.vars[Uses(expr).id]>> ELSE <<>>
      [] expr.k = "call" ->
           LET funObj == getFunctionObject(expr.fun) IN
           IF funObj.kind # "nil" /\ funObj.id \in DOMAIN t.funcs
           THEN <<t.funcs[funObj.id]>> ELSE <<>>
      [] OTHER -> <<>>

CollectFunctionDef(funcDecl, defs) ==
    IF funcDecl.obj.kind = "nil" THEN defs ELSE MapPut(defs, funcDecl.obj.id, funcDecl)

RECURSIVE CollectAssignmentFrom(_, _, _)
CollectAssignmentFrom(assign, i, t) ==
    IF i > Len(assign.lhs) THEN t
    ELSE IF i > Len(assign.rhs) THEN CollectAssignmentFrom(assign, i + 1, t)
    ELSE LET lhs == assign.lhs[i]
             rhs == assign.rhs[i]
             isVar == lhs.k = "ident" /\ Defs(lhs).kind = "var"
             source == checkSensitiveExpr(rhs, t) IN
         IF isVar /\ source # <<>>
         THEN CollectAssignmentFrom(assign, i + 1,
                  [t EXCEPT !.vars = MapPut(t.vars, Defs(lhs).id, source[1])])
         ELSE CollectAssignmentFrom(assign, i + 1, t)

CollectAssignment(assign, t) == CollectAssignmentFrom(assign, 1, t)

CollectReturn(ret, currentFunc, t) ==
    IF Len(ret.results) # 1 THEN t
    ELSE LET source == checkSensitiveExpr(ret.results[1], t) IN
         IF source # <<>> /\ currentFunc.kind # "nil"
         THEN [t EXCEPT !.funcs = MapPut(t.funcs, currentFunc.id, source[1])]
         ELSE t

\* One same-package call: the arguments from index i, the next parameter
\* group being paramIdx.
RECURSIVE MarkNames(_, _, _, _), MapArguments(_, _, _, _, _)
\* The parameters recorded, the entry of a variable already tainted kept.
MarkNamesKeepVars(names, arg, source, t) ==
    LET marked == {i \in DOMAIN names : Defs(names[i]).kind = "var"}
        ids == {Defs(names[i]).id : i \in marked}
        newSource(id) ==
            SensitiveSource(source.FieldName, arg.pos,
                Append(source.FlowPath,
                       ParameterStep(names[CHOOSE i \in marked : Defs(names[i]).id = id].name))) IN
    [t EXCEPT !.params = [x \in DOMAIN t.params \cup ids |->
                            IF x \in ids THEN newSource(x) ELSE t.params[x]],
              !.vars = [x \in DOMAIN t.vars \cup ids |->
                          IF x \in DOMAIN t.vars THEN t.vars[x] ELSE newSource(x)]]
MarkNames(names, arg, source, t) ==
    IF names = <<>> THEN t
    ELSE LET paramName == Head(names)
             newSource == SensitiveSource(source.FieldName, arg.pos,
                              Append(source.FlowPath, ParameterStep(paramName.name)))
             t2 == IF Defs(paramName).kind = "var"
                   THEN [t EXCEPT !.params = MapPut(t.params, Defs(paramName).id, newSource),
                                  !.vars = MapPut(t.vars, Defs(paramName).id, newSource)]
                   ELSE t IN
         MarkNames(Tail(names), arg, source, t2)
\* The i-th argument mapped to the i-th parameter, whatever group declares it.
RECURSIVE MapArgumentsPositional(_, _, _, _, _)
MapArgumentsPositional(args, params, i, paramIdx, t) ==
    LET flat == Concat([g \in DOMAIN params |-> params[g].names]) IN
    IF i > Len(args) \/ i > Len(flat) THEN t
    ELSE LET source == checkSensitiveExpr(args[i], t)
             t2 == IF source # <<>> THEN MarkNames(<<flat[i]>>, args[i], source[1], t) ELSE t IN
         MapArgumentsPositional(args, params, i + 1, paramIdx, t2)
MapArguments(args, params, i, paramIdx, t) ==
    IF i > Len(args) THEN t
    ELSE IF paramIdx >= Len(params) THEN t
    ELSE LET arg == args[i]
             param == params[paramIdx + 1]
             source == checkSensitiveExpr(arg, t)
             t2 == IF source # <<>> THEN MarkNames(param.names, arg, source[1], t) ELSE t IN
         MapArguments(args, params, i + 1,
                      IF Len(param.names) > 0 THEN paramIdx + 1 ELSE paramIdx, t2)

\* The callee looked up by its name, whatever package declares it.
TrackCallByName(call, defs, t) ==
    LET calledFunc == getFunctionObject(call.fun)
        named == {id \in DOMAIN defs : defs[id].obj.name = calledFunc.name} IN
    IF calledFunc.kind = "nil" THEN t
    ELSE IF named = {} THEN t
    ELSE MapArguments(call.args, defs[CHOOSE id \in named : TRUE].params, 1, 0, t)

TrackCall(call, defs, t) ==
    LET calledFunc == getFunctionObject(call.fun) IN
    IF calledFunc.kind = "nil" THEN t
    ELSE IF calledFunc.pkg = "nil" \/ calledFunc.pkg # ThisPkg THEN t
    ELSE IF calledFunc.id \notin DOMAIN defs THEN t
    ELSE MapArguments(call.args, defs[calledFunc.id].params, 1, 0, t)

\* The calls among nodes[lo..hi], in order.
RECURSIVE TrackCalls(_, _, _, _, _)
TrackCalls(nodes, lo, hi, defs, t) ==
    IF lo > hi THEN t
    ELSE IF lo = hi
    THEN (IF nodes[lo].k = "call" THEN TrackCall(nodes[lo], defs, t) ELSE t)
    ELSE LET mid == (lo + hi) \div 2
             left == TrackCalls(nodes, lo, mid, defs, t) IN
         IF left = t
         THEN TrackCalls(nodes, mid + 1, hi, defs, t)
         ELSE TrackCalls(nodes, mid + 1, hi, defs, left)

\* analyzeFunctionCalls once visitedFuncs has let the function through.
analyzeFunctionCalls(funcDecl, defs, t) ==
    IF ~funcDecl.hasBody THEN t
    ELSE LET nodes == InspectAll(funcDecl.body) IN
         TrackCalls(nodes, 1, Len(nodes), defs, t)

MaxPasses == 5

\* The variable looked up by its name among the identifiers of the package.
IsSensitiveVarByName(obj, t) ==
    LET bodies == [i \in DOMAIN prog.decls |->
                      IF prog.decls[i].k = "func" THEN InspectAll(prog.decls[i].body)
                      ELSE <<>>]
        sameName == {n.obj.id : n \in {m \in Range(Concat(bodies)) :
                                         /\ m.k = "ident"
                                         /\ m.obj.kind = "var"
                                         /\ m.obj.name = obj.name}}
                       \cap DOMAIN t.vars IN
    IF obj.kind = "var" /\ sameName # {}
    THEN <<t.vars[CHOOSE id \in sameName : TRUE]>> ELSE <<>>

IsSensitiveVar(obj, t) ==
    IF obj.kind = "var" /\ obj.id \in DOMAIN t.vars THEN <<t.vars[obj.id]>> ELSE <<>>

IsSensitiveCall(call, t) ==
    LET funObj == getFunctionObject(call.fun) IN
    IF funObj.kind = "nil" THEN <<>>
    ELSE IF funObj.id \in DOMAIN t.funcs THEN <<t.funcs[funObj.id]>> ELSE <<>>

(***************************************************************************)
(* LogDetector.  A config is a sequence of targets; NoConfig is the nil    *)
(* *config.Config.                                                         *)
(***************************************************************************)
NoConfig == [present |-> FALSE, Targets |-> <<>>]
\* NewLogDetector leaves the config field nil.
NewLogDetector == NoConfig
Config(targets) == [present |-> TRUE, Targets |-> targets]
Target(package, functions, methods) ==
    [Package |-> package, Functions |-> functions, Methods |-> methods]
MethodConfig(receiver, names) == [Receiver |-> receiver, Names |-> names]

isSlogStyleMethod(name) ==
    name \in {"Info", "Error", "Warn", "Debug", "InfoContext", "ErrorContext",
              "WarnContext", "DebugContext", "Log", "LogAttrs"}

isLogStyleMethod(name) ==
    name \in {"Fatal", "Fatalf", "Fatalln", "Panic", "Panicf", "Panicln",
              "Print", "Printf", "Println", "Output"}

isFmtStyleMethod(name) ==
    name \in {"Fprint", "Fprintf", "Fprintln", "Print", "Printf", "Println"}

isSlogLoggerType(recv) ==
    recv.ptr /\ recv.tname = "Logger" /\ recv.tpkg # "nil" /\ recv.tpkg = "log/slog"

isLogLoggerType(recv) ==
    recv.ptr /\ recv.tname = "Logger" /\ recv.tpkg # "nil" /\ recv.tpkg = "log"

\* configReceiver is a string: a sequence of characters and names, "*" first
\* for a pointer receiver.
\* The receiver's pointer taken off whatever the configured receiver says.
isMatchingReceiverTypeAnyPtr(recv, pkgPath, configReceiver) ==
    LET isPointer == Len(configReceiver) > 0 /\ configReceiver[1] = "*"
        typeName == IF isPointer THEN Tail(configReceiver) ELSE configReceiver IN
    IF <<recv.tname>> # typeName THEN FALSE
    ELSE IF recv.tpkg = "nil" THEN FALSE
    ELSE recv.tpkg = pkgPath

isMatchingReceiverType(recv, pkgPath, configReceiver) ==
    LET isPointer == Len(configReceiver) > 0 /\ configReceiver[1] = "*"
        typeName == IF isPointer THEN Tail(configReceiver) ELSE configReceiver IN
    IF isPointer /\ ~recv.ptr THEN FALSE
    ELSE IF ~isPointer /\ recv.ptr THEN FALSE
    ELSE IF <<recv.tname>> # typeName THEN FALSE
    ELSE IF recv.tpkg = "nil" THEN FALSE
    ELSE recv.tpkg = pkgPath

isCustomLogCall(pkgPath, funcName, fn, config) ==
    \E ti \in DOMAIN config.Targets :
        LET target == config.Targets[ti] IN
        /\ target.Package = pkgPath
        /\ \/ Contains(target.Functions, funcName)
           \/ /\ fn.recv.has
              /\ \E mi \in DOMAIN target.Methods :
                    /\ isMatchingReceiverType(fn.recv, pkgPath, target.Methods[mi].Receiver)
                    /\ Contains(target.Methods[mi].Names, funcName)

IsLogCall(call, config) ==
    IF call.fun.k # "sel" THEN FALSE
    ELSE LET obj == call.fun.obj IN
         IF obj.kind = "nil" THEN FALSE
         ELSE IF obj.kind # "func" THEN FALSE
         ELSE IF obj.pkg = "nil" THEN FALSE
         ELSE LET pkgPath == obj.pkg
                  funcName == call.fun.f IN
              IF pkgPath = "log/slog" THEN isSlogStyleMethod(funcName)
              ELSE IF pkgPath = "log" THEN isLogStyleMethod(funcName)
              ELSE IF pkgPath = "fmt" THEN isFmtStyleMethod(funcName)
              ELSE IF obj.recv.has /\ isSlogLoggerType(obj.recv) /\ isSlogStyleMethod(funcName) THEN TRUE
              ELSE IF obj.recv.has /\ isLogLoggerType(obj.recv) /\ isLogStyleMethod(funcName) THEN TRUE
              ELSE IF config.present THEN isCustomLogCall(pkgPath, funcName, obj, config)
              ELSE FALSE

(***************************************************************************)
(* The per-argument check.  Finding.RuleID names the diagnostic reported.  *)
(***************************************************************************)
Finding(pos, message, rule) == [Pos |-> pos, Message |-> message, RuleID |-> rule]

VarMessage(name, fieldName) ==
    <<"variable \"", name, "\" contains sensitive field \"", fieldName,
      "\" (tagged with sensitive:\"true\")">>
CallMessage(fieldName) ==
    <<"function call returns sensitive field \"", fieldName,
      "\" (tagged with sensitive:\"true\")">>
StructMessage(typeName) ==
    <<"struct '", typeName, "' contains sensitive fields and should not be logged entirely">>
FieldMessage(typeName, fieldName) ==
    <<"sensitive field '", typeName, ".", fieldName,
      "' should not be logged (tagged with sensitive:\"true\")">>

\* The goroutine stack ran out inside the field lookup: no finding, the run dies.
StackOverflow(pos) == Finding(pos, <<"stack overflow">>, "fatal")

\* A method was called on a nil *types.TypeName: the run dies.
NilDereference(pos) == Finding(pos, <<"nil pointer dereference">>, "fatal")

checkFieldAccessWithCollector(sel, t) ==
    IF ~sel.x.ty.known THEN <<>>
    ELSE IF sel.x.ty.named = "none" THEN <<>>
    ELSE IF ~TypeOf(sel.x.ty.named).hasObj THEN <<>>
    ELSE LET named == sel.x.ty.named
             typeName == TypeOf(named).name
             fieldName == sel.f IN
         IF <<typeName, fieldName>> \in t.fields
         THEN <<Finding(sel.pos, FieldMessage(typeName, fieldName), "sensitive-field")>>
         ELSE LET r == checkSensitiveFieldFromTypeInfo(named, fieldName) IN
              CASE r = "true" -> <<Finding(sel.pos, FieldMessage(typeName, fieldName), "sensitive-field")>>
                [] r = "overflow" -> <<StackOverflow(sel.pos)>>
                [] OTHER -> <<>>

RECURSIVE CheckArgForSensitiveData(_, _), InspectArg(_, _), InspectArgs(_, _), CheckArgs(_, _)
CheckArgStructFirst(arg, t) ==
    LET var == IF arg.k = "ident" /\ Uses(arg).kind # "nil"
               THEN IsSensitiveVar(Uses(arg), t) ELSE <<>>
        call == IF arg.k = "call" THEN IsSensitiveCall(arg, t) ELSE <<>>
        isNamed == arg.ty.known /\ arg.ty.named # "none"
        typeName == IF isNamed THEN TypeOf(arg.ty.named).name ELSE "" IN
    IF isNamed /\ hasAnySensitiveFields(typeName, t.fields)
    THEN <<Finding(arg.pos, StructMessage(typeName), "sensitive-struct")>>
    ELSE IF var # <<>>
    THEN <<Finding(arg.pos, VarMessage(arg.name, var[1].FieldName), "sensitive-var")>>
    ELSE IF call # <<>>
    THEN <<Finding(arg.pos, CallMessage(call[1].FieldName), "sensitive-call")>>
    ELSE InspectArg(arg, t)
CheckArgForSensitiveData(arg, t) ==
    LET var == IF arg.k = "ident" /\ Uses(arg).kind # "nil"
               THEN IsSensitiveVar(Uses(arg), t) ELSE <<>>
        call == IF arg.k = "call" THEN IsSensitiveCall(arg, t) ELSE <<>>
        isNamed == arg.ty.known /\ arg.ty.named # "none"
        typeName == IF isNamed THEN TypeOf(arg.ty.named).name ELSE "" IN
    IF var # <<>>
    THEN <<Finding(arg.pos, VarMessage(arg.name, var[1].FieldName), "sensitive-var")>>
    ELSE IF call # <<>>
    THEN <<Finding(arg.pos, CallMessage(call[1].FieldName), "sensitive-call")>>
    ELSE IF isNamed /\ ~TypeOf(arg.ty.named).hasObj THEN <<>>
    ELSE IF isNamed /\ hasAnySensitiveFields(typeName, t.fields)
    THEN <<Finding(arg.pos, StructMessage(typeName), "sensitive-struct")>>
    ELSE IF isNamed /\ hasAnySensitiveFieldsFromTypePanics(arg.ty.named)
    THEN <<NilDereference(arg.pos)>>
    ELSE IF isNamed /\ hasAnySensitiveFieldsFromType(arg.ty.named)
    THEN <<Finding(arg.pos, StructMessage(typeName), "sensitive-struct")>>
    ELSE InspectArg(arg, t)
\* ast.Inspect(arg, ...): a selector is checked and entered, a call hands its
\* arguments back to CheckArgForSensitiveData and is not entered.
InspectArg(n, t) ==
    CASE n.k = "sel" -> checkFieldAccessWithCollector(n, t) \o InspectArgs(Children(n), t)
      [] n.k = "call" -> CheckArgs(n.args, t)
      [] OTHER -> InspectArgs(Children(n), t)
InspectArgs(ns, t) ==
    IF ns = <<>> THEN <<>> ELSE InspectArg(Head(ns), t) \o InspectArgs(Tail(ns), t)
CheckArgs(args, t) ==
    IF args = <<>> THEN <<>>
    ELSE CheckArgForSensitiveData(Head(args), t) \o CheckArgs(Tail(args), t)

(***************************************************************************)
(* DataFlowCollector.                                                      *)
(***************************************************************************)
collectNodeEveryCall(node, currentFunc, config, c) ==
    CASE node.k = "assign" ->
           [c EXCEPT !.tracker = CollectAssignment(node, c.tracker)]
      [] node.k = "return" ->
           [c EXCEPT !.tracker = CollectReturn(node, currentFunc, c.tracker)]
      [] node.k = "call" -> [c EXCEPT !.logCalls = Append(c.logCalls, node)]
      [] OTHER -> c
\* The callback of ast.Inspect in collectFromFunction on one node.
collectNode(node, currentFunc, config, c) ==
    CASE node.k = "assign" ->
           [c EXCEPT !.tracker = CollectAssignment(node, c.tracker)]
      [] node.k = "return" ->
           [c EXCEPT !.tracker = CollectReturn(node, currentFunc, c.tracker)]
      [] node.k = "call" ->
           IF IsLogCall(node, config)
           THEN [c EXCEPT !.logCalls = Append(c.logCalls, node)]
           ELSE c
      [] OTHER -> c

\* The walk of one function body over nodes[lo..hi], in order: c.tracker and
\* c.logCalls as they grow.
RECURSIVE collectNodes(_, _, _, _, _, _)
collectNodes(nodes, lo, hi, currentFunc, config, c) ==
    IF lo > hi THEN c
    ELSE IF lo = hi THEN collectNode(nodes[lo], currentFunc, config, c)
    ELSE LET mid == (lo + hi) \div 2
             left == collectNodes(nodes, lo, mid, currentFunc, config, c) IN
         IF left = c
         THEN collectNodes(nodes, mid + 1, hi, currentFunc, config, c)
         ELSE collectNodes(nodes, mid + 1, hi, currentFunc, config, left)

\* SetCurrentFunction is called only for a resolved name, and the context is
\* nil between two declarations.
collectFromFunction(funcDecl, config, c) ==
    IF ~funcDecl.hasBody THEN c
    ELSE LET nodes == InspectAll(funcDecl.body) IN
         collectNodes(nodes, 1, Len(nodes), funcDecl.obj, config, c)

Collector(t, calls, defs) == [tracker |-> t, logCalls |-> calls, funcDefs |-> defs]

\* collectFromFile on one top-level declaration.  A var declaration is walked
\* through, but only TypeSpec and FuncDecl nodes are acted on.
collectFromFile(decl, config, c) ==
    CASE decl.k = "type" ->
           [c EXCEPT !.tracker.fields = CollectFromTypeSpec(decl, c.tracker.fields)]
      [] decl.k = "func" ->
           collectFromFunction(decl, config,
               [c EXCEPT !.funcDefs = CollectFunctionDef(decl, c.funcDefs)])
      [] OTHER -> c

\* The arguments Analyze hands to CheckArgForSensitiveData, in order, as
\* <<index of the call in logCalls, index of the argument>>.
RECURSIVE ArgCursors(_, _)
ArgCursors(calls, ci) ==
    IF ci > Len(calls) THEN <<>>
    ELSE [ai \in 1..Len(calls[ci].args) |-> <<ci, ai>>] \o ArgCursors(calls, ci + 1)

Fatal(fs) == \E i \in DOMAIN fs : fs[i].RuleID = "fatal"

(***************************************************************************)
(* The state machine: Collect (one declaration per step, then the passes   *)
(* of AnalyzeDataFlow, one function of the range over funcDefs per step),  *)
(* then Analyze (one argument per step).                                   *)
(***************************************************************************)
CurTracker == Tracker(sensitiveFields, sensitiveVars, sensitiveFuncs, sensitiveParams)

\* The maps and lists NewDataFlowCollector allocates, all empty.
InitFacts ==
    /\ declIdx = 1
    /\ sensitiveFields = {}
    /\ sensitiveVars = EmptyMap
    /\ sensitiveFuncs = EmptyMap
    /\ sensitiveParams = EmptyMap
    /\ funcDefs = EmptyMap
    /\ logCalls = <<>>
    /\ pass = 0
    /\ changed = TRUE
    /\ visitedFuncs = {}
    /\ pending = {}
    /\ callIdx = 1
    /\ argIdx = 1
    /\ findings = <<>>
    /\ aggregated = <<>>
    /\ written = <<>>
    /\ loaded = [config |-> [Targets |-> <<>>], err |-> "none"]

InitState(p) == prog = p /\ pc = "collect" /\ InitFacts

CollectDecl ==
    /\ pc = "collect"
    /\ declIdx <= Len(prog.decls)
    /\ LET c == collectFromFile(prog.decls[declIdx], NewLogDetector,
                                Collector(CurTracker, logCalls, funcDefs)) IN
       /\ sensitiveFields' = c.tracker.fields
       /\ sensitiveVars' = c.tracker.vars
       /\ sensitiveFuncs' = c.tracker.funcs
       /\ sensitiveParams' = c.tracker.params
       /\ funcDefs' = c.funcDefs
       /\ logCalls' = c.logCalls
    /\ declIdx' = declIdx + 1
    /\ pc' = IF declIdx = Len(prog.decls) THEN "dataflow" ELSE "collect"
    /\ UNCHANGED <<loaded, aggregated, written, prog, pass, changed, visitedFuncs, pending, callIdx, argIdx, findings>>

BeginPassKeepChanged ==
    /\ pc = "dataflow"
    /\ pass < MaxPasses /\ changed
    /\ visitedFuncs' = {}
    /\ pending' = DOMAIN funcDefs
    /\ pc' = "round"
    /\ UNCHANGED <<loaded, aggregated, written, prog, declIdx, sensitiveFields, sensitiveVars, sensitiveFuncs,
                   sensitiveParams, funcDefs, logCalls, pass, changed, callIdx, argIdx, findings>>
\* for pass := 0; pass < maxPasses && changed; pass++ { changed = false; reset visited
BeginPass ==
    /\ pc = "dataflow"
    /\ pass < MaxPasses /\ changed
    /\ changed' = FALSE
    /\ visitedFuncs' = {}
    /\ pending' = DOMAIN funcDefs
    /\ pc' = "round"
    /\ UNCHANGED <<loaded, aggregated, written, prog, declIdx, sensitiveFields, sensitiveVars, sensitiveFuncs,
                   sensitiveParams, funcDefs, logCalls, pass, callIdx, argIdx, findings>>

\* One iteration of "for funcObj, funcDecl := range vt.funcDefs": the map
\* yields its keys in an order the language leaves open.
VisitFunc ==
    /\ pc = "round"
    /\ \E f \in pending :
         LET t == IF f \in visitedFuncs THEN CurTracker
                  ELSE analyzeFunctionCalls(funcDefs[f], funcDefs, CurTracker) IN
         /\ sensitiveVars' = t.vars
         /\ sensitiveParams' = t.params
         /\ changed' = (changed \/ Cardinality(DOMAIN t.vars) > Cardinality(DOMAIN sensitiveVars))
         /\ visitedFuncs' = visitedFuncs \cup {f}
         /\ pending' = pending \ {f}
    /\ UNCHANGED <<loaded, aggregated, written, prog, pc, declIdx, sensitiveFields, sensitiveFuncs, funcDefs,
                   logCalls, pass, callIdx, argIdx, findings>>

EndPass ==
    /\ pc = "round"
    /\ pending = {}
    /\ pass' = pass + 1
    /\ pc' = "dataflow"
    /\ UNCHANGED <<loaded, aggregated, written, prog, declIdx, sensitiveFields, sensitiveVars, sensitiveFuncs,
                   sensitiveParams, funcDefs, logCalls, changed, visitedFuncs, pending,
                   callIdx, argIdx, findings>>

\* The loop of AnalyzeDataFlow ends, Collect returns and Analyze starts.
EndDataFlow ==
    /\ pc = "dataflow"
    /\ ~(pass < MaxPasses /\ changed)
    /\ LET cur == ArgCursors(logCalls, 1) IN
       /\ pc' = IF cur = <<>> THEN "done" ELSE "analyze"
       /\ callIdx' = IF cur = <<>> THEN 1 ELSE cur[1][1]
       /\ argIdx' = IF cur = <<>> THEN 1 ELSE cur[1][2]
    /\ UNCHANGED <<loaded, aggregated, written, prog, declIdx, sensitiveFields, sensitiveVars, sensitiveFuncs,
                   sensitiveParams, funcDefs, logCalls, pass, changed, visitedFuncs,
                   pending, findings>>

CurArg == logCalls[callIdx].args[argIdx]

\* One iteration of the inner loop of Analyze.
AnalyzeArg ==
    /\ pc = "analyze"
    /\ LET fs == CheckArgForSensitiveData(CurArg, CurTracker)
           later == SelectSeq(ArgCursors(logCalls, callIdx),
                              LAMBDA cu : cu[1] > callIdx \/ cu[2] > argIdx) IN
       IF Fatal(fs)
       THEN /\ pc' = "crashed"
            /\ UNCHANGED <<findings, callIdx, argIdx>>
       ELSE /\ findings' = findings \o fs
            /\ pc' = IF later = <<>> THEN "done" ELSE "analyze"
            /\ callIdx' = IF later = <<>> THEN callIdx ELSE later[1][1]
            /\ argIdx' = IF later = <<>> THEN argIdx ELSE later[1][2]
    /\ UNCHANGED <<loaded, aggregated, written, prog, declIdx, sensitiveFields, sensitiveVars, sensitiveFuncs,
                   sensitiveParams, funcDefs, logCalls, pass, changed, visitedFuncs, pending>>

Next ==
    \/ CollectDecl
    \/ BeginPass
    \/ VisitFunc
    \/ EndPass
    \/ EndDataFlow
    \/ AnalyzeArg

(***************************************************************************)
(* Collect, AnalyzeDataFlow and Analyze as whole functions, the range over *)
(* funcDefs yielding its keys in a given order.                            *)
(***************************************************************************)
RECURSIVE collectFiles(_, _, _, _, _)
collectFiles(decls, lo, hi, config, c) ==
    IF lo > hi THEN c
    ELSE IF lo = hi THEN collectFromFile(decls[lo], config, c)
    ELSE LET mid == (lo + hi) \div 2
             left == collectFiles(decls, lo, mid, config, c) IN
         IF left = c
         THEN collectFiles(decls, mid + 1, hi, config, c)
         ELSE collectFiles(decls, mid + 1, hi, config, left)

\* One pass of AnalyzeDataFlow: st.t is the tracker, st.changed the flag.
RECURSIVE rangeFuncDefs(_, _, _, _)
rangeFuncDefs(order, i, defs, st) ==
    IF i > Len(order) THEN st
    ELSE LET t2 == analyzeFunctionCalls(defs[order[i]], defs, st.t)
             grew == Cardinality(DOMAIN t2.vars) > Cardinality(DOMAIN st.t.vars) IN
         rangeFuncDefs(order, i + 1, defs, [t |-> t2, changed |-> st.changed \/ grew])

RECURSIVE dataFlowPasses(_, _, _, _, _)
dataFlowPasses(n, ch, order, defs, t) ==
    IF ~(n < MaxPasses /\ ch) THEN t
    ELSE LET st == rangeFuncDefs(order, 1, defs, [t |-> t, changed |-> FALSE]) IN
         dataFlowPasses(n + 1, st.changed, order, defs, st.t)

AnalyzeDataFlow(order, defs, t) == dataFlowPasses(0, TRUE, order, defs, t)

RECURSIVE Analyze(_, _)
Analyze(calls, t) ==
    IF calls = <<>> THEN <<>>
    ELSE CheckArgs(Head(calls).args, t) \o Analyze(Tail(calls), t)

\* The functions of a package in the order of their declarations.
DeclOrder(decls) ==
    LET funcs == SelectSeq(decls, LAMBDA d : d.k = "func" /\ d.obj.kind # "nil") IN
    [i \in DOMAIN funcs |-> funcs[i].obj.id]

\* A whole run on the declarations, the registry read in declaration order.
Run(decls) ==
    LET c == collectFiles(decls, 1, Len(decls), NewLogDetector,
                          Collector(Tracker({}, EmptyMap, EmptyMap, EmptyMap), <<>>, EmptyMap))
        t == AnalyzeDataFlow(DeclOrder(decls), c.funcDefs, c.tracker) IN
    Analyze(c.logCalls, t)

(***************************************************************************)
(* The packages analysed.  Callee objects of the logging packages, then    *)
(* shorthands for the syntax, then the declarations.                       *)
(***************************************************************************)
SlogInfo == FuncObj("slog.Info", "log/slog", "Info", NoRecv)
SlogAny == FuncObj("slog.Any", "log/slog", "Any", NoRecv)
SlogWith == FuncObj("slog.With", "log/slog", "With", NoRecv)
SlogLoggerInfo == FuncObj("slog.Logger.Info", "log/slog", "Info", PtrRecv("log/slog", "Logger"))
SlogLoggerWith == FuncObj("slog.Logger.With", "log/slog", "With", PtrRecv("log/slog", "Logger"))
LogPrintln == FuncObj("log.Println", "log", "Println", NoRecv)
LogOutput == FuncObj("log.Output", "log", "Output", NoRecv)
LogLoggerPrintf == FuncObj("log.Logger.Printf", "log", "Printf", PtrRecv("log", "Logger"))
LogLoggerSetPrefix == FuncObj("log.Logger.SetPrefix", "log", "SetPrefix", PtrRecv("log", "Logger"))
FmtPrintln == FuncObj("fmt.Println", "fmt", "Println", NoRecv)
FmtSprintf == FuncObj("fmt.Sprintf", "fmt", "Sprintf", NoRecv)
FmtErrorf == FuncObj("fmt.Errorf", "fmt", "Errorf", NoRecv)
ZapPkg == "go.uber.org/zap"
ZapL == FuncObj("zap.L", ZapPkg, "L", NoRecv)
ZapLoggerInfo == FuncObj("zap.Logger.Info", ZapPkg, "Info", PtrRecv(ZapPkg, "Logger"))
ZapLoggerSync == FuncObj("zap.Logger.Sync", ZapPkg, "Sync", PtrRecv(ZapPkg, "Logger"))
ZapSugarInfow == FuncObj("zap.SugaredLogger.Infow", ZapPkg, "Infow", PtrRecv(ZapPkg, "SugaredLogger"))
ZapFieldString == FuncObj("zap.Field.String", ZapPkg, "String", ValRecv(ZapPkg, "Field"))
ForeignLog == FuncObj("foreignpkg.Log", "example.com/foreignpkg", "Log", NoRecv)
ForeignLoggerInfo ==
    FuncObj("foreignpkg.Logger.Info", "example.com/foreignpkg", "Info",
            PtrRecv("example.com/foreignpkg", "Logger"))
\* error.Error: a method of the universe, no owning package.
ErrorError == FuncObj("error.Error", "nil", "Error", ValRecv("nil", "error"))
\* A struct field of function type, selected and called.
HookField == VarObj("field.Hook", "Hook")

Pkg(pos, name) == Id(pos, PkgName(name), NoInfo)
Local(fn, name) == VarObj(fn \o "." \o name, name)
Use(pos, fn, name, ty) == Id(pos, Local(fn, name), ty)
Decl(pos, fn, name) == Def(pos, Local(fn, name))
Field(x, f, ty) == Sel(x, f, VarObj("field." \o f, f), ty)
\* pkg.F(args) on an imported package, and f(args) on a function of this one.
PkgCall(pos, pkgName, obj, args) ==
    Call(Sel(Pkg(pos, pkgName), obj.name, obj, Basic), args, Basic)
LocalCall(pos, name, args, ty) == Call(Id(pos, LocalFunc(name), Basic), args, ty)
Param(pos, fn, name) == ParamGroup(<<Decl(pos, fn, name)>>, FALSE)
Program(name, decls) == [name |-> name, decls |-> decls]

\* func <name>(v <tid>) <fty> { return v.<field> }
Getter(name, base, tid, field, fty) ==
    FuncDecl(LocalFunc(name), <<Param(base + 1, name, "v")>>, TRUE,
             <<Return(<<Field(Use(base + 2, name, "v", ValT(tid)), field, fty)>>)>>)

\* The per-argument rules and their overlaps.
testRules ==
    LET u(pos) == Use(pos, "testRules", "u", ValT("User"))
        a(pos) == Use(pos, "testRules", "a", ValT("Account"))
        p(pos) == Use(pos, "testRules", "p", Basic)
        c(pos) == Use(pos, "testRules", "c", ValT("Cred")) IN
    FuncDecl(LocalFunc("testRules"), <<>>, TRUE, <<
        Assign(<<Decl(201, "testRules", "u")>>, <<Lit(202)>>),
        Assign(<<Decl(203, "testRules", "a")>>, <<Lit(204)>>),
        Assign(<<Decl(205, "testRules", "p")>>, <<Field(u(206), "Password", Basic)>>),
        Assign(<<Decl(207, "testRules", "c")>>, <<Field(a(208), "Cred", ValT("Cred"))>>),
        ExprStmt(PkgCall(210, "slog", SlogInfo, <<Lit(211), p(212)>>)),
        ExprStmt(PkgCall(220, "slog", SlogInfo, <<Lit(221), c(222)>>)),
        ExprStmt(PkgCall(230, "slog", SlogInfo,
                         <<Lit(231), LocalCall(232, "getPwd", <<u(233)>>, Basic)>>)),
        ExprStmt(PkgCall(240, "slog", SlogInfo,
                         <<Lit(241), LocalCall(242, "getCred", <<a(243)>>, ValT("Cred"))>>)),
        ExprStmt(PkgCall(250, "slog", SlogInfo,
                         <<Lit(251), Field(a(252), "Cred", ValT("Cred"))>>)),
        ExprStmt(PkgCall(260, "fmt", FmtPrintln,
                         <<Lit(261), u(262), Unary(263, u(264), PtrT("User"))>>)),
        ExprStmt(PkgCall(270, "log", LogPrintln,
                         <<Field(u(271), "Password", Basic),
                           PkgCall(272, "slog", SlogAny, <<Lit(273), Field(u(274), "Name", Basic)>>),
                           Unary(275, Field(u(276), "Password", Basic), Basic),
                           PkgCall(277, "slog", SlogAny, <<Lit(278), p(279)>>)>>)),
        ExprStmt(PkgCall(280, "foreignpkg", ForeignLog,
                         <<Field(u(281), "Password", Basic), p(282),
                           LocalCall(283, "getPwd", <<u(284)>>, Basic), u(285)>>)) >>)

RulesDecls == {TypeSpec("User"), TypeSpec("Account"),
               Getter("getPwd", 100, "User", "Password", Basic),
               Getter("getCred", 110, "Account", "Cred", ValT("Cred")),
               testRules}

RulesPrograms == {Program("rules", <<TypeSpec("Cred")>> \o o) : o \in Perms(RulesDecls)}

\* Return values: a getter, a getter of a getter, and their uses.
getNested ==
    FuncDecl(LocalFunc("getNested"), <<Param(121, "getNested", "v")>>, TRUE,
             <<Return(<<LocalCall(122, "getPwd",
                                  <<Use(123, "getNested", "v", ValT("User"))>>, Basic)>>)>>)

testReturn ==
    LET u(pos) == Use(pos, "testReturn", "u", ValT("User")) IN
    FuncDecl(LocalFunc("testReturn"), <<>>, TRUE, <<
        Assign(<<Decl(301, "testReturn", "u")>>, <<Lit(302)>>),
        Assign(<<Decl(303, "testReturn", "q")>>, <<LocalCall(304, "getPwd", <<u(305)>>, Basic)>>),
        Assign(<<Decl(306, "testReturn", "r")>>, <<LocalCall(307, "getNested", <<u(308)>>, Basic)>>),
        ExprStmt(PkgCall(310, "slog", SlogInfo, <<Lit(311), Use(312, "testReturn", "q", Basic)>>)),
        ExprStmt(PkgCall(320, "slog", SlogInfo, <<Lit(321), Use(322, "testReturn", "r", Basic)>>)),
        ExprStmt(PkgCall(330, "log", LogPrintln,
                         <<LocalCall(331, "getPwd", <<u(332)>>, Basic),
                           LocalCall(333, "getNested", <<u(334)>>, Basic)>>)) >>)

ReturnDecls == {TypeSpec("User"), Getter("getPwd", 100, "User", "Password", Basic),
                getNested, testReturn}

ReturnPrograms == {Program("return", o) : o \in Perms(ReturnDecls)}

\* Whole structs handed to a sink, one argument per named type.
testStructs ==
    LET v(pos, name, ty) == Use(pos, "testStructs", name, ty) IN
    FuncDecl(LocalFunc("testStructs"), <<>>, TRUE, <<
        ExprStmt(PkgCall(400, "slog", SlogInfo,
            <<Lit(401), v(402, "user", ValT("User")), v(403, "cfg", ValT("Config")),
              v(404, "safe", ValT("SafeConfig")), v(405, "wrap", ValT("WrapConfig")),
              v(406, "nested", ValT("NestedSafeConfig")), v(407, "pw", PtrT("PtrWrap")),
              v(408, "settings", ValT("Settings")), v(409, "level", ValT("Level")),
              v(410, "ou", ValT("other.User")), v(411, "bs", ValT("base.Settings")),
              v(412, "es", PtrT("ext.Secret")), v(413, "acct", ValT("Account"))>>)) >>)

StructTypeSpecs ==
    <<TypeSpec("Config"), TypeSpec("SafeConfig"), TypeSpec("WrapConfig"),
      TypeSpec("NestedSafeConfig"), TypeSpec("PtrWrap"), TypeSpec("Settings"),
      TypeSpec("Level"), TypeSpec("Cred"), TypeSpec("Account")>>

StructPrograms ==
    {Program("structs", StructTypeSpecs \o <<testStructs>>),
     Program("structs", <<TypeSpec("User")>> \o StructTypeSpecs \o <<testStructs>>)}

\* Sinks in every syntactic context: a function body, a function literal in
\* a body, the argument of another call, the initialiser of a package variable.
testContexts ==
    LET u(pos) == Use(pos, "testContexts", "u", ValT("User")) IN
    FuncDecl(LocalFunc("testContexts"), <<Param(501, "testContexts", "u")>>, TRUE, <<
        ExprStmt(PkgCall(510, "slog", SlogInfo, <<Lit(511), Field(u(512), "Password", Basic)>>)),
        ExprStmt(Call(FuncLit(520, <<ExprStmt(PkgCall(521, "log", LogPrintln,
                                        <<Field(u(522), "Password", Basic)>>))>>), <<>>, Basic)),
        ExprStmt(LocalCall(530, "must",
                           <<PkgCall(531, "log", LogOutput,
                                     <<Lit(532), Field(u(533), "Password", Basic)>>)>>, Basic)) >>)

must == FuncDecl(LocalFunc("must"), <<Param(541, "must", "err")>>, TRUE, <<>>)

\* var handler = func(u User) { slog.Info("m", u.Password) }
handlerVar ==
    VarDecl(<<FuncLit(550, <<ExprStmt(PkgCall(551, "slog", SlogInfo,
                <<Lit(552), Field(Use(553, "handler", "u", ValT("User")), "Password", Basic)>>))>>)>>)

ContextPrograms ==
    {Program("contexts", <<TypeSpec("User"), must, testContexts>>),
     Program("contexts", <<TypeSpec("User"), must, testContexts, handlerVar>>)}

\* func logMultiple(vals ...string): every value is logged in a range loop,
\* then the slice as a whole.
logMultiple ==
    FuncDecl(LocalFunc("logMultiple"),
             <<ParamGroup(<<Decl(601, "logMultiple", "vals")>>, TRUE)>>, TRUE,
             <<Block(<<ExprStmt(PkgCall(602, "slog", SlogInfo,
                                        <<Lit(603), Use(604, "logMultiple", "v", Basic)>>))>>),
               ExprStmt(PkgCall(605, "slog", SlogInfo,
                                <<Lit(606), Use(607, "logMultiple", "vals", Basic)>>))>>)

\* func <name>() { u := User{}; p := u.Password; <callee>(<lits>, p) }
PasswordCaller(name, base, callee, lits) ==
    FuncDecl(LocalFunc(name), <<>>, TRUE, <<
        Assign(<<Decl(base + 1, name, "u")>>, <<Lit(base + 2)>>),
        Assign(<<Decl(base + 3, name, "p")>>,
               <<Field(Use(base + 4, name, "u", ValT("User")), "Password", Basic)>>),
        ExprStmt(LocalCall(base + 5, callee,
                           [i \in 1..lits |-> Lit(base + 5 + i)] \o
                           <<Use(base + 9, name, "p", Basic)>>, Basic)) >>)

VariadicPrograms ==
    {Program("variadic", <<TypeSpec("User"), logMultiple,
                           PasswordCaller("testVariadicArguments", 610, "logMultiple", 1)>>),
     Program("variadic", <<TypeSpec("User"), logMultiple,
                           PasswordCaller("testVariadicFirst", 620, "logMultiple", 0)>>)}

\* One function logging its parameter, called with a password by one caller
\* and with an API key by another.
logIt ==
    FuncDecl(LocalFunc("logIt"), <<Param(701, "logIt", "v")>>, TRUE,
             <<ExprStmt(PkgCall(702, "slog", SlogInfo,
                                <<Lit(703), Use(704, "logIt", "v", Basic)>>))>>)

callWithKey ==
    FuncDecl(LocalFunc("callWithKey"), <<>>, TRUE, <<
        Assign(<<Decl(721, "callWithKey", "c")>>, <<Lit(722)>>),
        Assign(<<Decl(723, "callWithKey", "k")>>,
               <<Field(Use(724, "callWithKey", "c", ValT("Config")), "APIKey", Basic)>>),
        ExprStmt(LocalCall(725, "logIt", <<Use(726, "callWithKey", "k", Basic)>>, Basic)) >>)

TwoCallerPrograms ==
    {Program("callers", <<TypeSpec("User"), TypeSpec("Config"), logIt,
                          PasswordCaller("callWithPassword", 710, "logIt", 0)>>),
     Program("callers", <<TypeSpec("User"), TypeSpec("Config"), logIt,
                          PasswordCaller("callWithPassword", 710, "logIt", 0), callWithKey>>)}

\* A chain testChain -> level1 -> ... -> level<n>, every level logging its
\* parameter and handing it on; grouped declares level1(tag, v string).
MaxChain == 6

levelName(k) == "level" \o ToString(k)

chainLevel(k, last, grouped) ==
    LET name == levelName(k)
        base == 1000 * k IN
    FuncDecl(LocalFunc(name),
             IF grouped
             THEN <<ParamGroup(<<Decl(base + 1, name, "tag"), Decl(base + 2, name, "v")>>, FALSE)>>
             ELSE <<Param(base + 2, name, "v")>>,
             TRUE,
             <<ExprStmt(PkgCall(base + 3, "log", LogPrintln, <<Use(base + 4, name, "v", Basic)>>))>>
             \o (IF last THEN <<>>
                 ELSE <<ExprStmt(LocalCall(base + 5, levelName(k + 1),
                                           <<Use(base + 6, name, "v", Basic)>>, Basic))>>))

ChainProgram(n, grouped) ==
    Program("chain",
            <<TypeSpec("User"),
              PasswordCaller("testChain", 900, levelName(1), IF grouped THEN 1 ELSE 0)>>
            \o [k \in 1..n |-> chainLevel(k, k = n, grouped /\ k = 1)])

ChainPrograms == {ChainProgram(n, g) : n \in 1..MaxChain, g \in BOOLEAN}

\* The callees and the configurations the sink classification is tried on.
Callees ==
    {SlogInfo, SlogAny, SlogWith, SlogLoggerInfo, SlogLoggerWith, LogPrintln, LogOutput,
     LogLoggerPrintf, LogLoggerSetPrefix, FmtPrintln, FmtSprintf, FmtErrorf, ZapL,
     ZapLoggerInfo, ZapLoggerSync, ZapSugarInfow, ZapFieldString, ForeignLog,
     ForeignLoggerInfo, ErrorError, HookField, NilObj}

\* x.m(u.Password) for a callee m.
CallOf(obj) ==
    Call(Sel(Use(801, "testSink", "x", Basic), obj.name, obj, Basic),
         <<Field(Use(802, "testSink", "u", ValT("User")), "Password", Basic)>>, Basic)

ZapTarget ==
    Target(ZapPkg, <<"L">>,
           <<MethodConfig(<<"*", "Logger">>, <<"Info", "Error">>),
             MethodConfig(<<"SugaredLogger">>, <<"Infow">>),
             MethodConfig(<<"Field">>, <<"String">>)>>)
ForeignTarget ==
    Target("example.com/foreignpkg", <<"Log">>, <<MethodConfig(<<"*", "Logger">>, <<"Warn">>)>>)
FmtTarget == Target("fmt", <<"Errorf", "Sprintf">>, <<>>)
SlogTarget == Target("log/slog", <<"With">>, <<MethodConfig(<<"*", "Logger">>, <<"With">>)>>)
LogTarget == Target("log", <<>>, <<MethodConfig(<<"*", "Logger">>, <<"SetPrefix">>)>>)
\* A target naming a zap receiver under another package path.
StrayTarget == Target("example.com/foreignpkg", <<"L">>, <<MethodConfig(<<"*", "Logger">>, <<"Info">>)>>)
\* A target naming the zap receivers with the pointer on the wrong side.
SwappedTarget ==
    Target(ZapPkg, <<>>,
           <<MethodConfig(<<"Logger">>, <<"Info">>),
             MethodConfig(<<"*", "Field">>, <<"String">>)>>)

Configs ==
    {NoConfig, Config(<<>>), Config(<<ZapTarget>>), Config(<<ForeignTarget, ZapTarget>>),
     Config(<<FmtTarget>>), Config(<<SlogTarget, LogTarget>>), Config(<<StrayTarget>>),
     Config(<<SwappedTarget>>)}

\* Functions with two results: pair returns the field itself; pairLit returns
\* a constant and holds a function literal that returns the field.
\* func pair(u User) (string, error) { return u.Password, nil }
pair ==
    FuncDecl(LocalFunc("pair"), <<Param(1101, "pair", "u")>>, TRUE,
             <<Return(<<Field(Use(1102, "pair", "u", ValT("User")), "Password", Basic),
                        Lit(1103)>>)>>)

\* func pairLit(u User) (string, error) {
\*     check := func() string { return u.Password }
\*     if check() == "" { return "", errEmpty }
\*     return "ok", nil }
\* The if statement is the block of its condition's operands and its body.
pairLit ==
    FuncDecl(LocalFunc("pairLit"), <<Param(1111, "pairLit", "u")>>, TRUE, <<
        Assign(<<Decl(1112, "pairLit", "check")>>,
               <<FuncLit(1113, <<Return(<<Field(Use(1114, "pairLit", "u", ValT("User")),
                                                "Password", Basic)>>)>>)>>),
        Block(<<Call(Use(1115, "pairLit", "check", Basic), <<>>, Basic), Lit(1116),
                Block(<<Return(<<Lit(1117), Lit(1118)>>)>>)>>),
        Return(<<Lit(1119), Lit(1120)>>) >>)

\* func testMulti() { u := User{}; a, err := pair(u); b, err := pairLit(u)
\*                    slog.Info("m", a); slog.Info("m", b)
\*                    log.Println(pair(u)); log.Println(pairLit(u)) }
testMulti ==
    LET u(pos) == Use(pos, "testMulti", "u", ValT("User")) IN
    FuncDecl(LocalFunc("testMulti"), <<>>, TRUE, <<
        Assign(<<Decl(1121, "testMulti", "u")>>, <<Lit(1122)>>),
        Assign(<<Decl(1123, "testMulti", "a"), Decl(1124, "testMulti", "err")>>,
               <<LocalCall(1125, "pair", <<u(1126)>>, Basic)>>),
        Assign(<<Decl(1127, "testMulti", "b"), Decl(1128, "testMulti", "err2")>>,
               <<LocalCall(1129, "pairLit", <<u(1130)>>, Basic)>>),
        ExprStmt(PkgCall(1131, "slog", SlogInfo, <<Lit(1132), Use(1133, "testMulti", "a", Basic)>>)),
        ExprStmt(PkgCall(1134, "slog", SlogInfo, <<Lit(1135), Use(1136, "testMulti", "b", Basic)>>)),
        ExprStmt(PkgCall(1137, "log", LogPrintln, <<LocalCall(1138, "pair", <<u(1139)>>, Basic)>>)),
        ExprStmt(PkgCall(1140, "log", LogPrintln, <<LocalCall(1141, "pairLit", <<u(1142)>>, Basic)>>)) >>)

MultiPrograms ==
    {Program("multi", <<TypeSpec("User"), pair, testMulti>>),
     Program("multiLit", <<TypeSpec("User"), pair, pairLit, testMulti>>)}

\* A function of another package that has the name of a function of this one.
OtherMask == FuncObj("other.Mask", "example.com/other", "Mask", NoRecv)

\* func Mask(val string) string { slog.Info("m", val); return val }
localMask ==
    FuncDecl(LocalFunc("Mask"), <<Param(1201, "Mask", "val")>>, TRUE, <<
        ExprStmt(PkgCall(1202, "slog", SlogInfo, <<Lit(1203), Use(1204, "Mask", "val", Basic)>>)),
        Return(<<Use(1205, "Mask", "val", Basic)>>) >>)

\* func testCross() { u := User{}; p := u.Password
\*                    x := other.Mask(p); other.Mask(u.Password)
\*                    slog.Info("m", x); slog.Info("m", other.Mask("safe")) }
testCross ==
    FuncDecl(LocalFunc("testCross"), <<>>, TRUE, <<
        Assign(<<Decl(1211, "testCross", "u")>>, <<Lit(1212)>>),
        Assign(<<Decl(1213, "testCross", "p")>>,
               <<Field(Use(1214, "testCross", "u", ValT("User")), "Password", Basic)>>),
        Assign(<<Decl(1215, "testCross", "x")>>,
               <<PkgCall(1216, "other", OtherMask, <<Use(1217, "testCross", "p", Basic)>>)>>),
        ExprStmt(PkgCall(1218, "other", OtherMask,
                         <<Field(Use(1219, "testCross", "u", ValT("User")), "Password", Basic)>>)),
        ExprStmt(PkgCall(1220, "slog", SlogInfo, <<Lit(1221), Use(1222, "testCross", "x", Basic)>>)),
        ExprStmt(PkgCall(1223, "slog", SlogInfo,
                         <<Lit(1224), PkgCall(1225, "other", OtherMask, <<Lit(1226)>>)>>)) >>)

CrossPrograms == {Program("cross", <<TypeSpec("User"), localMask, testCross>>)}

\* Structs that embed each other by pointer: NodeA and NodeB, NodeB declaring
\* a sensitive field, and LoopA and LoopB, which declare none.
\* func testCycles() { slog.Info("m", na, nb, la, lb, settings) }
testCycles ==
    LET v(pos, name, ty) == Use(pos, "testCycles", name, ty) IN
    FuncDecl(LocalFunc("testCycles"), <<>>, TRUE, <<
        ExprStmt(PkgCall(1300, "slog", SlogInfo,
            <<Lit(1301), v(1302, "na", ValT("NodeA")), v(1303, "nb", PtrT("NodeB")),
              v(1304, "la", ValT("LoopA")), v(1305, "lb", PtrT("LoopB")),
              v(1306, "settings", ValT("Settings"))>>)) >>)

CyclePrograms ==
    {Program("cycles", <<TypeSpec("NodeA"), TypeSpec("NodeB"), TypeSpec("LoopA"),
                         TypeSpec("LoopB"), TypeSpec("Settings"), testCycles>>)}

\* Two variables called name, one in each function literal.
\* func testScope() { u := User{}
\*     func() { name := u.Name; slog.Info("m", name) }()
\*     func() { name := u.Password; slog.Info("m", name) }() }
testScope ==
    LET u(pos) == Use(pos, "testScope", "u", ValT("User"))
        name1 == VarObj("testScope.func1.name", "name")
        name2 == VarObj("testScope.func2.name", "name") IN
    FuncDecl(LocalFunc("testScope"), <<>>, TRUE, <<
        Assign(<<Decl(1501, "testScope", "u")>>, <<Lit(1502)>>),
        ExprStmt(Call(FuncLit(1510, <<
            Assign(<<Def(1511, name1)>>, <<Field(u(1512), "Name", Basic)>>),
            ExprStmt(PkgCall(1513, "slog", SlogInfo, <<Lit(1514), Id(1515, name1, Basic)>>)) >>),
            <<>>, Basic)),
        ExprStmt(Call(FuncLit(1520, <<
            Assign(<<Def(1521, name2)>>, <<Field(u(1522), "Password", Basic)>>),
            ExprStmt(PkgCall(1523, "slog", SlogInfo, <<Lit(1524), Id(1525, name2, Basic)>>)) >>),
            <<>>, Basic)) >>)

ScopePrograms == {Program("scope", <<TypeSpec("User"), testScope>>)}

\* Fields selected on local types, on imported types and through embedding.
\* func testFields() { slog.Info("m", ou.Password, ou.Name, wrap.APIKey,
\*                               wrap.Description, es.Key, settings.Token, u.Name) }
testFields ==
    LET v(pos, name, ty) == Use(pos, "testFields", name, ty) IN
    FuncDecl(LocalFunc("testFields"), <<>>, TRUE, <<
        ExprStmt(PkgCall(1700, "slog", SlogInfo,
            <<Lit(1701),
              Field(v(1702, "ou", ValT("other.User")), "Password", Basic),
              Field(v(1703, "ou", ValT("other.User")), "Name", Basic),
              Field(v(1704, "wrap", ValT("WrapConfig")), "APIKey", Basic),
              Field(v(1705, "wrap", ValT("WrapConfig")), "Description", Basic),
              Field(v(1706, "es", PtrT("ext.Secret")), "Key", Basic),
              Field(v(1707, "settings", ValT("Settings")), "Token", Basic),
              Field(v(1708, "u", ValT("User")), "Name", Basic)>>)) >>)

FieldPrograms ==
    {Program("fields", <<TypeSpec("User"), TypeSpec("Config"), TypeSpec("WrapConfig"),
                         TypeSpec("Settings"), testFields>>),
     Program("fieldsNoUser", <<TypeSpec("Config"), TypeSpec("WrapConfig"),
                               TypeSpec("Settings"), testFields>>)}

\* Input the type checker left incomplete: d has a named struct type without
\* a type object, x has no type information, unresolved is an identifier
\* without an object, err.Error has no owning package; h is a struct of the
\* package that embeds d's type.
\* func testIgnorable() { u := User{}; p := u.Password; q := d.Key
\*     unresolved(p); err.Error(); x.Info(p)
\*     slog.Info("m", d, d.Key, x.Secret, q, unresolved(d), err.Error()) }
ignorableBody(fn) ==
    LET d(pos) == Use(pos, fn, "d", ValT("Detached"))
        x(pos) == Use(pos, fn, "x", NoInfo)
        err(pos) == Use(pos, fn, "err", Basic)
        unresolved(pos, args) == Call(Id(pos, NilObj, NoInfo), args, NoInfo) IN
    << Assign(<<Decl(1801, fn, "u")>>, <<Lit(1802)>>),
       Assign(<<Decl(1803, fn, "p")>>,
              <<Field(Use(1804, fn, "u", ValT("User")), "Password", Basic)>>),
       Assign(<<Decl(1805, fn, "q")>>, <<Field(d(1806), "Key", Basic)>>),
       ExprStmt(unresolved(1807, <<Use(1808, fn, "p", Basic)>>)),
       ExprStmt(Call(Sel(err(1809), "Error", ErrorError, Basic), <<>>, Basic)),
       ExprStmt(Call(Sel(x(1810), "Info", NilObj, NoInfo), <<Use(1811, fn, "p", Basic)>>, NoInfo)),
       ExprStmt(PkgCall(1820, "slog", SlogInfo,
           <<Lit(1821), d(1822), Field(d(1823), "Key", Basic), Field(x(1824), "Secret", NoInfo),
             Use(1825, fn, "q", Basic), unresolved(1826, <<d(1827)>>),
             Call(Sel(err(1828), "Error", ErrorError, Basic), <<>>, Basic)>>)) >>

testIgnorable == FuncDecl(LocalFunc("testIgnorable"), <<>>, TRUE, ignorableBody("testIgnorable"))

\* func testEmbedded() { ...the same...; slog.Info("m", h) }
testEmbedded ==
    FuncDecl(LocalFunc("testEmbedded"), <<>>, TRUE,
             ignorableBody("testEmbedded") \o
             <<ExprStmt(PkgCall(1830, "slog", SlogInfo,
                   <<Lit(1831), Use(1832, "testEmbedded", "h", ValT("HoldsDetached"))>>))>>)

IgnorablePrograms ==
    {Program("ignorable", <<TypeSpec("User"), TypeSpec("HoldsDetached"), testIgnorable>>),
     Program("ignorableEmbedded", <<TypeSpec("User"), TypeSpec("HoldsDetached"), testEmbedded>>)}

\* Parameters declared in groups.
\* func join(a, b string, c string) { slog.Info("m", a, b, c) }
join ==
    FuncDecl(LocalFunc("join"),
             <<ParamGroup(<<Decl(2101, "join", "a"), Decl(2102, "join", "b")>>, FALSE),
               Param(2103, "join", "c")>>,
             TRUE,
             <<ExprStmt(PkgCall(2104, "slog", SlogInfo,
                   <<Lit(2105), Use(2106, "join", "a", Basic), Use(2107, "join", "b", Basic),
                     Use(2108, "join", "c", Basic)>>))>>)

\* func testGroups() { u := User{}; p := u.Password; c := Config{}; k := c.APIKey
\*                     join(p, "x", k) }
testGroups ==
    FuncDecl(LocalFunc("testGroups"), <<>>, TRUE, <<
        Assign(<<Decl(2111, "testGroups", "u")>>, <<Lit(2112)>>),
        Assign(<<Decl(2113, "testGroups", "p")>>,
               <<Field(Use(2114, "testGroups", "u", ValT("User")), "Password", Basic)>>),
        Assign(<<Decl(2115, "testGroups", "c")>>, <<Lit(2116)>>),
        Assign(<<Decl(2117, "testGroups", "k")>>,
               <<Field(Use(2118, "testGroups", "c", ValT("Config")), "APIKey", Basic)>>),
        ExprStmt(LocalCall(2120, "join",
                           <<Use(2121, "testGroups", "p", Basic), Lit(2122),
                             Use(2123, "testGroups", "k", Basic)>>, Basic)) >>)

\* func testGroupsLast() { u := User{}; p := u.Password; join("y", "z", p) }
testGroupsLast ==
    FuncDecl(LocalFunc("testGroupsLast"), <<>>, TRUE, <<
        Assign(<<Decl(2131, "testGroupsLast", "u")>>, <<Lit(2132)>>),
        Assign(<<Decl(2133, "testGroupsLast", "p")>>,
               <<Field(Use(2134, "testGroupsLast", "u", ValT("User")), "Password", Basic)>>),
        ExprStmt(LocalCall(2135, "join",
                           <<Lit(2136), Lit(2137),
                             Use(2138, "testGroupsLast", "p", Basic)>>, Basic)) >>)

GroupPrograms ==
    {Program("groups", <<TypeSpec("User"), TypeSpec("Config"), join, testGroups>>),
     Program("groupsLast", <<TypeSpec("User"), join, testGroupsLast>>)}

\* A local variable and a result defined from a parameter.
\* func relay(v string) string { w := v; slog.Info("m", w); return v }
relay ==
    FuncDecl(LocalFunc("relay"), <<Param(2201, "relay", "v")>>, TRUE, <<
        Assign(<<Decl(2202, "relay", "w")>>, <<Use(2203, "relay", "v", Basic)>>),
        ExprStmt(PkgCall(2204, "slog", SlogInfo, <<Lit(2205), Use(2206, "relay", "w", Basic)>>)),
        Return(<<Use(2207, "relay", "v", Basic)>>) >>)

\* func testDerived() { u := User{}; p := u.Password; r := relay(p); slog.Info("m", r) }
testDerived ==
    FuncDecl(LocalFunc("testDerived"), <<>>, TRUE, <<
        Assign(<<Decl(2211, "testDerived", "u")>>, <<Lit(2212)>>),
        Assign(<<Decl(2213, "testDerived", "p")>>,
               <<Field(Use(2214, "testDerived", "u", ValT("User")), "Password", Basic)>>),
        Assign(<<Decl(2215, "testDerived", "r")>>,
               <<LocalCall(2216, "relay", <<Use(2217, "testDerived", "p", Basic)>>, Basic)>>),
        ExprStmt(PkgCall(2218, "slog", SlogInfo,
                         <<Lit(2219), Use(2220, "testDerived", "r", Basic)>>)) >>)

DerivedPrograms == {Program("derived", <<TypeSpec("User"), relay, testDerived>>)}

\* A sink call in the argument of another sink call.
\* func testNested(u User) { slog.Info("m", log.Output(2, u.Password)) }
testNested ==
    FuncDecl(LocalFunc("testNested"), <<Param(2301, "testNested", "u")>>, TRUE, <<
        ExprStmt(PkgCall(2302, "slog", SlogInfo, <<Lit(2303),
            PkgCall(2304, "log", LogOutput,
                    <<Lit(2305),
                      Field(Use(2306, "testNested", "u", ValT("User")), "Password", Basic)>>)>>)) >>)

NestedPrograms == {Program("nested", <<TypeSpec("User"), testNested>>)}

\* A field declared after an embedded member of a type whose embeddings form
\* a cycle through pointers.
\* func testCycleField(la LoopA) { slog.Info("m", la.Note) }
testCycleField ==
    FuncDecl(LocalFunc("testCycleField"), <<Param(2401, "testCycleField", "la")>>, TRUE, <<
        ExprStmt(PkgCall(2402, "slog", SlogInfo, <<Lit(2403),
            Field(Use(2404, "testCycleField", "la", ValT("LoopA")), "Note", Basic)>>)) >>)

CycleFieldPrograms ==
    {Program("cycleField", <<TypeSpec("LoopA"), TypeSpec("LoopB"), testCycleField>>)}

Programs ==
    CycleFieldPrograms \cup NestedPrograms \cup DerivedPrograms \cup GroupPrograms \cup RulesPrograms \cup ReturnPrograms \cup StructPrograms \cup ContextPrograms
        \cup VariadicPrograms \cup TwoCallerPrograms \cup MultiPrograms
        \cup CrossPrograms \cup CyclePrograms \cup ScopePrograms
        \cup FieldPrograms \cup IgnorablePrograms

Init == \E p \in Programs : InitState(p)

Spec == Init /\ [][Next]_vars

InitChain == \E p \in ChainPrograms : InitState(p)

SpecChain == InitChain /\ [][Next]_vars

\* The classification alone: a LogDetector built by NewLogDetectorWithConfig
\* is asked about one call, which is appended to logCalls when it answers yes.
InitSink ==
    /\ \E obj \in Callees, cfg \in Configs :
          prog = [name |-> "sink", decls |-> <<>>, call |-> CallOf(obj), config |-> cfg]
    /\ pc = "classify"
    /\ InitFacts

Classify ==
    /\ pc = "classify"
    /\ logCalls' = IF IsLogCall(prog.call, prog.config)
                   THEN Append(logCalls, prog.call) ELSE logCalls
    /\ pc' = "classified"
    /\ UNCHANGED <<loaded, aggregated, written, prog, declIdx, sensitiveFields, sensitiveVars, sensitiveFuncs,
                   sensitiveParams, funcDefs, pass, changed, visitedFuncs, pending,
                   callIdx, argIdx, findings>>

NextSink == Classify

SpecSink == InitSink /\ [][NextSink]_vars

\* Declarations that do not refer to one another, and a getter with its use,
\* in every order.
logOther ==
    FuncDecl(LocalFunc("logOther"), <<Param(851, "logOther", "o")>>, TRUE, <<
        Assign(<<Decl(852, "logOther", "p")>>,
               <<Field(Use(853, "logOther", "o", ValT("other.User")), "Password", Basic)>>),
        ExprStmt(PkgCall(854, "slog", SlogInfo, <<Lit(855), Use(856, "logOther", "p", Basic)>>)) >>)

ReorderPrograms ==
    {Program("reorder", o) : o \in Perms({TypeSpec("User"), TypeSpec("Config"), logOther})}
        \cup ReturnPrograms

InitReorder == \E p \in ReorderPrograms : InitState(p)

SpecReorder == InitReorder /\ [][Next]_vars

(***************************************************************************)
(* Vocabulary of the properties.                                           *)
(***************************************************************************)
IsExpr(n) == n.k \in {"ident", "sel", "call", "lit", "unary", "funclit"}

\* Every node of the package, declaration by declaration.
AllNodes(p) ==
    UNION {Range(InspectAll(IF p.decls[i].k = "func" THEN p.decls[i].body
                            ELSE IF p.decls[i].k = "var" THEN p.decls[i].values
                            ELSE <<>>)) : i \in DOMAIN p.decls}

FuncDecls(p) == {p.decls[i] : i \in {j \in DOMAIN p.decls : p.decls[j].k = "func"}}

SubtreePos(e) == {n.pos : n \in {m \in Range(Inspect(e)) : IsExpr(m)}}

HoldsCall(e) == \E n \in Range(Inspect(e)) : n.k = "call"

\* The arguments Analyze has been through: all of them once pc is "done".
CheckedArgs ==
    {logCalls[cu[1]].args[cu[2]] : cu \in
        {c \in Range(ArgCursors(logCalls, 1)) :
            pc = "done" \/ (pc = "analyze" /\ (c[1] < callIdx \/ (c[1] = callIdx /\ c[2] < argIdx)))}}

FindingAt(pos, rule) == \E i \in DOMAIN findings : findings[i].Pos = pos /\ findings[i].RuleID = rule

\* What the catalog and the type information answer for a named type.
CatalogSensitiveStruct(tid) ==
    \/ hasAnySensitiveFields(TypeOf(tid).name, sensitiveFields)
    \/ hasAnySensitiveFieldsFromType(tid)

\* The first rule of the per-argument decision that applies to an argument.
FirstRule(arg) ==
    IF arg.k = "ident" /\ ~arg.def /\ arg.obj.kind = "var" /\ arg.obj.id \in DOMAIN sensitiveVars
    THEN "sensitive-var"
    ELSE IF arg.k = "call" /\ getFunctionObject(arg.fun).id \in DOMAIN sensitiveFuncs
    THEN "sensitive-call"
    ELSE IF arg.ty.known /\ arg.ty.named # "none" /\ CatalogSensitiveStruct(arg.ty.named)
    THEN "sensitive-struct"
    ELSE "walk"

NewFindings == SubSeq(findings', Len(findings) + 1, Len(findings'))

\* C1: for every argument of a collected sink call the decision is first
\* match wins in the order tainted variable, tainted call, sensitive struct,
\* walk; when one of the first three rules applies exactly one finding is
\* emitted, at the argument's position and with that rule, and nothing below
\* the argument is scanned; the walk only reports inside the argument, and
\* only field accesses unless it meets a nested call.
C1_FirstMatchWins ==
    [][(pc = "analyze" /\ pc' # "crashed") =>
         LET arg == CurArg
             rule == FirstRule(arg)
             new == NewFindings IN
         /\ Len(findings') >= Len(findings)
         /\ SubSeq(findings', 1, Len(findings)) = findings
         /\ rule # "walk" =>
              /\ Len(new) = 1
              /\ new[1].Pos = arg.pos
              /\ new[1].RuleID = rule
         /\ rule = "walk" =>
              \A i \in DOMAIN new :
                 /\ new[i].Pos \in SubtreePos(arg)
                 /\ ~HoldsCall(arg) => new[i].RuleID = "sensitive-field"]_vars

\* A tainted variable whose type is a sensitive struct and a tainted call
\* whose result type is a sensitive struct have both been decided.
C1_Witness ==
    /\ pc = "done"
    /\ \E a \in CheckedArgs :
          /\ FirstRule(a) = "sensitive-var"
          /\ a.ty.named # "none" /\ CatalogSensitiveStruct(a.ty.named)
          /\ FindingAt(a.pos, "sensitive-var")
    /\ \E a \in CheckedArgs :
          /\ FirstRule(a) = "sensitive-call"
          /\ a.ty.named # "none" /\ CatalogSensitiveStruct(a.ty.named)
          /\ FindingAt(a.pos, "sensitive-call")
    /\ \E a \in CheckedArgs : FirstRule(a) = "walk" /\ HoldsCall(a) /\ a.k = "call"

\* The fields of the catalog as messages name them.
CatalogFieldNames == {FieldNameOf(sf[1], sf[2]) : sf \in sensitiveFields}

\* An expression that classifies as sensitive under the final facts: a
\* sensitive field access, a tainted variable, a call of a tainted function.
ClassifiesSensitive(e) ==
    \/ /\ e.k = "sel"
       /\ e.x.ty.known /\ e.x.ty.named # "none"
       /\ <<TypeOf(e.x.ty.named).name, e.f>> \in sensitiveFields
    \/ e.k = "ident" /\ ~e.def /\ e.obj.kind = "var" /\ e.obj.id \in DOMAIN sensitiveVars
    \/ e.k = "call" /\ getFunctionObject(e.fun).id \in DOMAIN sensitiveFuncs

ReturnsSensitive(f) ==
    \E r \in Range(InspectAll(f.body)) :
        r.k = "return" /\ Len(r.results) = 1 /\ ClassifiesSensitive(r.results[1])

\* The variables defined by q := f(...).
DefinedFrom(f) ==
    UNION {{a.lhs[i].obj.id : i \in {j \in DOMAIN a.lhs :
                                  /\ j <= Len(a.rhs)
                                  /\ a.lhs[j].k = "ident" /\ a.lhs[j].def
                                  /\ a.rhs[j].k = "call"
                                  /\ getFunctionObject(a.rhs[j].fun).id = f.obj.id}} :
           a \in {n \in AllNodes(prog) : n.k = "assign"}}

\* C2: every function of the package with a single-result return that
\* classifies as sensitive is in sensitiveFuncs at the end of the collection;
\* every variable defined by q := f(...) is in sensitiveVars; a sink argument q
\* gets a sensitive-var finding and a sink argument f(...) a sensitive-call
\* finding, each naming a field of the catalog.
C2_ReturnValueTaint ==
    pc = "done" =>
      \A f \in FuncDecls(prog) :
         ReturnsSensitive(f) =>
           /\ f.obj.id \in DOMAIN sensitiveFuncs
           /\ DefinedFrom(f) \subseteq DOMAIN sensitiveVars
           /\ \A a \in CheckedArgs :
                /\ (a.k = "ident" /\ ~a.def /\ a.obj.id \in DefinedFrom(f)) =>
                      \E i \in DOMAIN findings, fn \in CatalogFieldNames :
                         /\ findings[i].Pos = a.pos
                         /\ findings[i].RuleID = "sensitive-var"
                         /\ findings[i].Message = VarMessage(a.name, fn)
                /\ (a.k = "call" /\ getFunctionObject(a.fun).id = f.obj.id) =>
                      \E i \in DOMAIN findings, fn \in CatalogFieldNames :
                         /\ findings[i].Pos = a.pos
                         /\ findings[i].RuleID = "sensitive-call"
                         /\ findings[i].Message = CallMessage(fn)

\* A struct type is sensitive when it declares a field with a sensitive tag
\* or embeds, by value or by pointer, a struct type that is; types are told
\* apart by identity.
RECURSIVE StructSensitiveFrom(_, _)
StructSensitiveFrom(tid, seen) ==
    LET T == TypeOf(tid) IN
    /\ T.isStruct
    /\ tid \notin seen
    /\ \E i \in DOMAIN T.fields :
          \/ HasSensitiveTag(T.fields[i].tag)
          \/ /\ T.fields[i].embedded
             /\ T.fields[i].ty.named # "none"
             /\ StructSensitiveFrom(T.fields[i].ty.named, seen \cup {tid})

StructSensitive(tid) == StructSensitiveFrom(tid, {})

\* C4: a variable of a named type handed whole to a sink is reported as a
\* sensitive struct if and only if its type declares a sensitive field or
\* embeds, transitively, a struct type that does.
C4_StructSensitivity ==
    pc = "done" =>
      \A a \in CheckedArgs :
         (/\ a.k = "ident" /\ a.ty.known /\ a.ty.named # "none"
          /\ FirstRule(a) \notin {"sensitive-var", "sensitive-call"}) =>
            (FindingAt(a.pos, "sensitive-struct") <=> StructSensitive(a.ty.named))

\* A call whose callee is in a built-in sink set: a function of log/slog, log
\* or fmt, or a method of *slog.Logger or *log.Logger, with a listed name.
BuiltinSink(call) ==
    /\ call.k = "call"
    /\ call.fun.k = "sel"
    /\ call.fun.obj.kind = "func"
    /\ LET obj == call.fun.obj IN
       \/ obj.pkg = "log/slog" /\ isSlogStyleMethod(obj.name)
       \/ obj.pkg = "log" /\ isLogStyleMethod(obj.name)
       \/ obj.pkg = "fmt" /\ isFmtStyleMethod(obj.name)

\* C6: every call of the package whose callee is in a built-in sink set is
\* collected, whatever the context it stands in, and its arguments are
\* checked: a sensitive field handed to it is reported.
C6_SinkCompleteness ==
    pc \in {"dataflow", "round", "analyze", "done"} =>
      \A n \in AllNodes(prog) :
         BuiltinSink(n) =>
           /\ n \in Range(logCalls)
           /\ pc = "done" =>
                \A i \in DOMAIN n.args :
                   (n.args[i].k = "sel" /\ ClassifiesSensitive(n.args[i])
                    /\ FirstRule(n.args[i]) = "walk") =>
                      FindingAt(n.args[i].pos, "sensitive-field")

C8_Deterministic == pc = "done" => findings = Run(prog.decls)

\* The symbols of the variadic parameters of the package.
VariadicParams(p) ==
    UNION {UNION {{f.params[g].names[i].obj.id : i \in DOMAIN f.params[g].names} :
                  g \in {x \in DOMAIN f.params : f.params[x].variadic}} :
           f \in FuncDecls(p)}

\* C10: no variadic parameter ever enters sensitiveVars or sensitiveParams,
\* and no finding is reported on one.
C10_VariadicNotMapped ==
    /\ VariadicParams(prog) \cap DOMAIN sensitiveVars = {}
    /\ VariadicParams(prog) \cap DOMAIN sensitiveParams = {}
    /\ \A a \in CheckedArgs :
          (a.k = "ident" /\ ~a.def /\ a.obj.id \in VariadicParams(prog)) =>
             ~FindingAt(a.pos, "sensitive-var")

\* The parameters of a function, one after the other, as a call fills them.
FlatParams(f) == Concat([g \in DOMAIN f.params |-> f.params[g].names])

AllParams(p) == UNION {{FlatParams(f)[i].obj.id : i \in DOMAIN FlatParams(f)} : f \in FuncDecls(p)}

\* The calls of functions of the package, from the bodies of its functions.
LocalCalls(p) ==
    {n \in UNION {Range(InspectAll(f.body)) : f \in FuncDecls(p)} :
        /\ n.k = "call"
        /\ getFunctionObject(n.fun).kind = "func"
        /\ getFunctionObject(n.fun).pkg = ThisPkg}

\* The parameters that receive, at their own position, an argument that is
\* tainted when the variables of S are.
Receivers(S) ==
    UNION {{FlatParams(f)[i].obj.id : i \in {j \in DOMAIN FlatParams(f) :
                /\ j <= Len(n.args)
                /\ \/ n.args[j].k = "ident" /\ ~n.args[j].def /\ n.args[j].obj.id \in S
                   \/ n.args[j].k # "ident" /\ ClassifiesSensitive(n.args[j])}} :
           <<f, n>> \in {fn \in FuncDecls(prog) \X LocalCalls(prog) :
                           /\ getFunctionObject(fn[2].fun).id = fn[1].obj.id
                           /\ \A g \in DOMAIN fn[1].params : ~fn[1].params[g].variadic}}

\* The variables tainted at depth k of a call chain: depth 0 is the variables
\* tainted by an assignment.
RECURSIVE TaintDepth(_)
TaintDepth(k) ==
    IF k = 0 THEN DOMAIN sensitiveVars \ AllParams(prog)
    ELSE TaintDepth(k - 1) \cup Receivers(TaintDepth(k - 1))

\* C3: when the passes are over, every parameter that a tainted value reaches
\* through at most MaxPasses calls, each handing it on at the parameter's
\* position, is in sensitiveVars, whatever order the registry was read in;
\* a sink argument that is such a parameter gets a sensitive-var finding
\* naming a field of the catalog.
C3_ChainDepth ==
    pc \in {"analyze", "done"} =>
      /\ TaintDepth(MaxPasses) \subseteq DOMAIN sensitiveVars
      /\ \A a \in CheckedArgs :
            (a.k = "ident" /\ ~a.def /\ a.obj.id \in TaintDepth(MaxPasses)) =>
               \E i \in DOMAIN findings, fn \in CatalogFieldNames :
                  /\ findings[i].Pos = a.pos
                  /\ findings[i].RuleID = "sensitive-var"
                  /\ findings[i].Message = VarMessage(a.name, fn)

\* The receiver spec "*T" matches a pointer receiver of the type T of the
\* package, the spec "T" a value receiver of it.
ReceiverSpecMatches(recv, pkgPath, spec) ==
    /\ recv.has
    /\ recv.tpkg = pkgPath
    /\ Len(spec) > 0
    /\ IF spec[1] = "*" THEN recv.ptr /\ Tail(spec) = <<recv.tname>>
       ELSE ~recv.ptr /\ spec = <<recv.tname>>

\* The decision procedure for a selector call.
DecidedSink(call, config) ==
    LET obj == call.fun.obj IN
    IF obj.kind # "func" THEN FALSE
    ELSE IF obj.pkg = "nil" THEN FALSE
    ELSE IF \/ obj.pkg = "log/slog" /\ isSlogStyleMethod(obj.name)
            \/ obj.pkg = "log" /\ isLogStyleMethod(obj.name)
            \/ obj.pkg = "fmt" /\ isFmtStyleMethod(obj.name)
    THEN TRUE
    ELSE IF /\ obj.recv.has /\ obj.recv.ptr /\ obj.recv.tname = "Logger"
            /\ \/ obj.recv.tpkg = "log/slog" /\ isSlogStyleMethod(obj.name)
               \/ obj.recv.tpkg = "log" /\ isLogStyleMethod(obj.name)
    THEN TRUE
    ELSE \E ti \in DOMAIN config.Targets :
            LET target == config.Targets[ti] IN
            /\ target.Package = obj.pkg
            /\ \/ Contains(target.Functions, obj.name)
               \/ \E mi \in DOMAIN target.Methods :
                     /\ ReceiverSpecMatches(obj.recv, obj.pkg, target.Methods[mi].Receiver)
                     /\ Contains(target.Methods[mi].Names, obj.name)

\* C5: a selector call is classified as a sink exactly when the decision
\* procedure says so: not for an unresolved callee or one without a package,
\* for a listed name of a built-in package or logger type, and otherwise if
\* and only if a configured target of the callee's package lists the name as
\* a function or under a matching receiver.
C5_SinkDecision ==
    pc = "classified" => ((logCalls # <<>>) <=> DecidedSink(prog.call, prog.config))

\* C9: the set of findings of a run is the set of findings of the run on any
\* other order of the same top-level declarations.
C9_ReorderInvariant ==
    pc = "done" =>
      \A o \in Perms(Range(prog.decls)) :
         Range(findings) = Range(Run(o))

\* A function that returns more than one value: one of its own return
\* statements, outside any function literal, has several results.
RECURSIVE OwnReturns(_)
OwnReturns(ns) ==
    IF ns = <<>> THEN {}
    ELSE LET n == Head(ns) IN
         (IF n.k = "return" THEN {n}
          ELSE IF n.k = "funclit" THEN {}
          ELSE OwnReturns(Children(n))) \cup OwnReturns(Tail(ns))

MultiValued(f) == \E r \in OwnReturns(f.body) : Len(r.results) > 1

\* C11: a function that returns more than one value is never in
\* sensitiveFuncs, no variable defined from its results is in sensitiveVars,
\* and neither a call of it nor such a variable, handed to a sink, is reported.
C11_MultiValuedNotSeeded ==
    \A f \in FuncDecls(prog) :
       MultiValued(f) =>
         /\ f.obj.id \notin DOMAIN sensitiveFuncs
         /\ DefinedFrom(f) \cap DOMAIN sensitiveVars = {}
         /\ \A a \in CheckedArgs :
              \/ (a.k = "call" /\ getFunctionObject(a.fun).id = f.obj.id)
              \/ (a.k = "ident" /\ ~a.def /\ a.obj.id \in DefinedFrom(f))
              => ~\E i \in DOMAIN findings : findings[i].Pos = a.pos

\* A call whose callee is declared outside the package.
ForeignCall(n) ==
    /\ n.k = "call"
    /\ getFunctionObject(n.fun).kind = "func"
    /\ getFunctionObject(n.fun).pkg # ThisPkg

\* The variables defined by x := f(...) for a callee outside the package.
DefinedFromForeign ==
    UNION {{a.lhs[i].obj.id : i \in {j \in DOMAIN a.lhs :
                                  /\ j <= Len(a.rhs)
                                  /\ a.lhs[j].k = "ident" /\ a.lhs[j].def
                                  /\ ForeignCall(a.rhs[j])}} :
           a \in {n \in AllNodes(prog) : n.k = "assign"}}

\* The parameters of the functions of the package that the package calls.
ParamsCalledLocally ==
    UNION {{FlatParams(f)[i].obj.id : i \in DOMAIN FlatParams(f)} :
           f \in {g \in FuncDecls(prog) :
                    \E n \in LocalCalls(prog) : getFunctionObject(n.fun).id = g.obj.id}}

\* C12: a call of a function declared outside the package taints nothing: no
\* such function is in sensitiveFuncs, no variable defined from such a call is
\* in sensitiveVars, and the only parameters in sensitiveParams or
\* sensitiveVars are those of functions of the package that the package calls.
C12_CrossPackage ==
    /\ DOMAIN sensitiveFuncs \subseteq {f.obj.id : f \in FuncDecls(prog)}
    /\ DefinedFromForeign \cap DOMAIN sensitiveVars = {}
    /\ DOMAIN sensitiveParams \subseteq ParamsCalledLocally
    /\ (DOMAIN sensitiveVars \cap AllParams(prog)) \subseteq ParamsCalledLocally

\* The passes are over on a package that hands a tainted variable and a
\* sensitive field to a function of another package, the package declaring a
\* function of the same name whose parameter stayed clean, and that logs a
\* variable defined from the foreign call.
C12_Witness ==
    /\ pc = "done"
    /\ \E n \in AllNodes(prog) :
          /\ ForeignCall(n)
          /\ \E i \in DOMAIN n.args : ClassifiesSensitive(n.args[i])
          /\ \E f \in FuncDecls(prog) :
                /\ f.obj.name = getFunctionObject(n.fun).name
                /\ \A i \in DOMAIN FlatParams(f) :
                      FlatParams(f)[i].obj.id \notin DOMAIN sensitiveVars
    /\ \E a \in CheckedArgs : a.k = "ident" /\ ~a.def /\ a.obj.id \in DefinedFromForeign

\* The types reachable from a type through embedded fields, the type itself
\* included, types being told apart by identity.
RECURSIVE EmbeddedClosure(_)
EmbeddedClosure(S) ==
    LET more == S \cup UNION {{TypeOf(t).fields[i].ty.named : i \in
                                 {j \in DOMAIN TypeOf(t).fields :
                                    /\ TypeOf(t).fields[j].embedded
                                    /\ TypeOf(t).fields[j].ty.named # "none"}} :
                              t \in {x \in S : TypeOf(x).isStruct}} IN
    IF more = S THEN S ELSE EmbeddedClosure(more)

DeclaresSensitive(tid) ==
    /\ TypeOf(tid).isStruct
    /\ \E i \in DOMAIN TypeOf(tid).fields : HasSensitiveTag(TypeOf(tid).fields[i].tag)

\* C13: for every named struct type handed to a sink, the walk of
\* hasAnySensitiveFieldsFromType ends, and it answers true whenever the type
\* or a struct type reachable from it through embedded fields, cyclic
\* embeddings included, declares a sensitive field.
C13_CyclicEmbedding ==
    \A a \in CheckedArgs :
       (/\ a.ty.known /\ a.ty.named # "none" /\ TypeOf(a.ty.named).isStruct
        /\ \E t \in EmbeddedClosure({a.ty.named}) : DeclaresSensitive(t)) =>
          hasAnySensitiveFieldsFromType(a.ty.named)

\* The method entries of a configuration, each with its target's package.
MethodEntries(config) ==
    UNION {{<<config.Targets[ti].Package, config.Targets[ti].Methods[mi]>> :
              mi \in DOMAIN config.Targets[ti].Methods} : ti \in DOMAIN config.Targets}

\* C14: for the classified callee and every method entry of the configuration,
\* the receiver "*T" matches exactly a pointer receiver of the type T of the
\* target's package and "T" exactly a value receiver of it; a callee of a
\* package outside the built-in ones whose name no target lists as a function
\* is a sink only through an entry that matches in this sense.
C14_ReceiverSpec ==
    pc = "classified" =>
      LET obj == prog.call.fun.obj IN
      (obj.kind = "func" /\ obj.recv.has) =>
         /\ \A e \in MethodEntries(prog.config) :
               isMatchingReceiverType(obj.recv, e[1], e[2].Receiver) <=>
                  /\ e[2].Receiver # <<>>
                  /\ obj.recv.tpkg = e[1]
                  /\ IF e[2].Receiver[1] = "*"
                     THEN obj.recv.ptr /\ e[2].Receiver = <<"*", obj.recv.tname>>
                     ELSE ~obj.recv.ptr /\ e[2].Receiver = <<obj.recv.tname>>
         /\ (/\ logCalls # <<>>
             /\ obj.pkg \notin {"log/slog", "log", "fmt"}
             /\ obj.recv.tpkg \notin {"log/slog", "log"}
             /\ \A ti \in DOMAIN prog.config.Targets :
                   ~Contains(prog.config.Targets[ti].Functions, obj.name)) =>
               \E e \in MethodEntries(prog.config) :
                  /\ e[1] = obj.pkg
                  /\ Contains(e[2].Names, obj.name)
                  /\ e[2].Receiver = (IF obj.recv.ptr THEN <<"*">> ELSE <<>>) \o <<obj.recv.tname>>

\* A pointer-receiver method was made a sink by its "*T" entry while the
\* configuration also holds a value entry naming a type of the package.
C14_Witness ==
    /\ pc = "classified"
    /\ logCalls # <<>>
    /\ prog.call.fun.obj.recv.has /\ prog.call.fun.obj.recv.ptr
    /\ prog.call.fun.obj.pkg = ZapPkg
    /\ \E e \in MethodEntries(prog.config) : e[2].Receiver = <<"SugaredLogger">>

\* The identifiers of the package in use position.
UsedIdents == {n \in AllNodes(prog) : n.k = "ident" /\ ~n.def}

\* C15: every sensitive-var finding is at an identifier whose symbol is a
\* variable of sensitiveVars, under that identifier's name and a field of the
\* catalog; an identifier whose symbol is not in sensitiveVars is never
\* reported as a variable, whatever its name.
C15_SensitiveVarSound ==
    /\ \A i \in DOMAIN findings :
          findings[i].RuleID = "sensitive-var" =>
             \E n \in UsedIdents :
                /\ n.pos = findings[i].Pos
                /\ n.obj.kind = "var"
                /\ n.obj.id \in DOMAIN sensitiveVars
                /\ \E fn \in CatalogFieldNames : findings[i].Message = VarMessage(n.name, fn)
    /\ \A n \in UsedIdents :
          n.obj.id \notin DOMAIN sensitiveVars => ~FindingAt(n.pos, "sensitive-var")

\* Two different variables of one name have been handed to sinks, the tainted
\* one reported and the other not.
C15_Witness ==
    /\ pc = "done"
    /\ \E a, b \in CheckedArgs :
          /\ a.k = "ident" /\ b.k = "ident"
          /\ a.name = b.name /\ a.obj.id # b.obj.id
          /\ a.obj.id \in DOMAIN sensitiveVars /\ FindingAt(a.pos, "sensitive-var")
          /\ b.obj.id \notin DOMAIN sensitiveVars /\ ~FindingAt(b.pos, "sensitive-var")

\* The expressions of the package.
Exprs == {n \in AllNodes(prog) : IsExpr(n)}

\* C16: every sensitive-struct finding is at an expression whose static type,
\* one pointer taken off, is a named struct type that declares a sensitive
\* field or embeds, transitively, a struct type that does, and the message
\* names that type; a type that only shares its short name with a sensitive
\* struct is not reported.
C16_SensitiveStructSound ==
    \A i \in DOMAIN findings :
       findings[i].RuleID = "sensitive-struct" =>
          \E n \in Exprs :
             /\ n.pos = findings[i].Pos
             /\ n.ty.known /\ n.ty.named # "none"
             /\ findings[i].Message = StructMessage(TypeOf(n.ty.named).name)
             /\ StructSensitive(n.ty.named)

\* The field that a selection of the name on a struct type resolves to, a
\* field of the type or one promoted from an embedded struct, carries a
\* sensitive tag; types are told apart by identity.
RECURSIVE FieldSensitiveFrom(_, _, _)
FieldSensitiveFrom(tid, fieldName, seen) ==
    LET T == TypeOf(tid) IN
    /\ T.isStruct
    /\ tid \notin seen
    /\ \E i \in DOMAIN T.fields :
          \/ T.fields[i].name = fieldName /\ HasSensitiveTag(T.fields[i].tag)
          \/ /\ T.fields[i].embedded
             /\ T.fields[i].ty.named # "none"
             /\ FieldSensitiveFrom(T.fields[i].ty.named, fieldName, seen \cup {tid})

\* C17: every sensitive-field finding is at a selector whose base has a named
\* struct type, one pointer taken off, and whose field, on that very type,
\* carries the sensitive tag; the message names the type and the field.
C17_SensitiveFieldSound ==
    \A i \in DOMAIN findings :
       findings[i].RuleID = "sensitive-field" =>
          \E n \in Exprs :
             /\ n.k = "sel"
             /\ n.pos = findings[i].Pos
             /\ n.x.ty.known /\ n.x.ty.named # "none"
             /\ findings[i].Message = FieldMessage(TypeOf(n.x.ty.named).name, n.f)
             /\ FieldSensitiveFrom(n.x.ty.named, n.f, {})

\* An expression the type checker left incomplete: an identifier or a callee
\* without an object, a callee without an owning package, a named type without
\* a type object, an expression without type information.
Ignorable(n) ==
    \/ n.k = "ident" /\ ~n.def /\ n.obj.kind = "nil"
    \/ n.k = "call" /\ getFunctionObject(n.fun).kind = "nil"
    \/ n.k = "call" /\ getFunctionObject(n.fun).kind = "func" /\ getFunctionObject(n.fun).pkg = "nil"
    \/ n.k = "sel" /\ ~n.x.ty.known
    \/ n.k = "sel" /\ n.x.ty.named # "none" /\ ~TypeOf(n.x.ty.named).hasObj
    \/ n.k \in {"ident", "call"} /\ ~n.ty.known
    \/ n.ty.named # "none" /\ ~TypeOf(n.ty.named).hasObj

\* C18: incomplete input is neither sensitive nor a sink and never ends the
\* run: no finding is at such an expression, no such call is collected, no
\* variable defined from one is tainted, and the analysis does not crash,
\* also when a struct handed to a sink embeds a type without a type object.
C18_IgnorableInput ==
    /\ pc # "crashed"
    /\ \A n \in Exprs :
          Ignorable(n) =>
             /\ \A i \in DOMAIN findings : findings[i].Pos # n.pos
             /\ ~Contains(logCalls, n)
    /\ \A a \in {n \in AllNodes(prog) : n.k = "assign"} :
          \A i \in DOMAIN a.lhs :
             (i <= Len(a.rhs) /\ Ignorable(a.rhs[i]) /\ a.lhs[i].k = "ident") =>
                a.lhs[i].obj.id \notin DOMAIN sensitiveVars

(***************************************************************************)
(* The SARIF reporters (package sarif).  A path is the sequence of its     *)
(* segments; a token.FileSet is the list of its files, each with its base, *)
(* its size and the offsets at which its lines start.                      *)
(***************************************************************************)
WorkDir == <<"home", "user", "project">>

TokenFile(name, base, size, lines) ==
    [name |-> name, base |-> base, size |-> size, lines |-> lines]

fsetA == [files |-> <<TokenFile(WorkDir \o <<"a", "a.go">>, 1, 40, <<0, 20>>)>>]
fsetB == [files |-> <<TokenFile(WorkDir \o <<"b", "b.go">>, 1, 40, <<0, 10, 30>>),
                      TokenFile(<<"home", "user", "mod", "dep.go">>, 42, 20, <<0>>)>>]
FileSets == {fsetA, fsetB}

\* token.FileSet.Position: the file holding p, the line whose start is the last
\* one at or before p's offset, the column counted from 1; the zero Position
\* for token.NoPos and for a position no file of the set holds.
NoPosition == [Filename |-> <<>>, Line |-> 0, Column |-> 0]
Position(fset, p) ==
    LET hits == {i \in DOMAIN fset.files :
                    /\ fset.files[i].base <= p
                    /\ p <= fset.files[i].base + fset.files[i].size}
    IN  IF p = 0 \/ hits = {} THEN NoPosition
        ELSE LET f   == fset.files[CHOOSE i \in hits : TRUE]
                 off == p - f.base
                 ln  == Cardinality({j \in DOMAIN f.lines : f.lines[j] <= off})
             IN  [Filename |-> f.name, Line |-> ln, Column |-> off - f.lines[ln] + 1]

\* filepath.Rel(workDir, absPath): an error for the empty path (relativePath
\* then falls back to absPath), otherwise one ".." per segment of workDir
\* outside the common prefix, followed by the rest of absPath.
relativePath(workDir, absPath) ==
    IF absPath = <<>> THEN absPath
    ELSE LET shorter == IF Len(workDir) <= Len(absPath) THEN Len(workDir) ELSE Len(absPath)
             k == Cardinality({n \in 1..shorter : SubSeq(workDir, 1, n) = SubSeq(absPath, 1, n)})
         IN  [i \in 1..(Len(workDir) - k) |-> ".."] \o SubSeq(absPath, k + 1, Len(absPath))

\* The first 16 bytes of sha256("path:line:rule"), kept as the hashed triple.
buildFingerprints(filePath, line, ruleID) ==
    [primaryLocationLineHash |-> <<"sha256", filePath, line, ruleID>>]

ruleIDMapping ==
    [r \in {"sensitive-var", "sensitive-call", "sensitive-struct", "sensitive-field"} |->
        CASE r = "sensitive-var"    -> "LH0001"
          [] r = "sensitive-call"   -> "LH0002"
          [] r = "sensitive-struct" -> "LH0003"
          [] r = "sensitive-field"  -> "LH0004"]

ToSARIFRuleID(detectorRuleID) ==
    IF detectorRuleID \in DOMAIN ruleIDMapping
    THEN ruleIDMapping[detectorRuleID]
    ELSE detectorRuleID

SarifResult(ruleID, text, relPath, pos) ==
    [RuleID    |-> ruleID,
     Message   |-> [Text |-> text],
     Locations |-> <<[PhysicalLocation |->
                        [ArtifactLocation |-> [URI |-> relPath, URIBaseID |-> "%SRCROOT%"],
                         Region |-> [StartLine |-> pos.Line, StartColumn |-> pos.Column]]]>>,
     Level     |-> "error",
     PartialFingerprints |-> buildFingerprints(relPath, pos.Line, ruleID)]

\* Reporter.buildResult: located through the FileSet of the reporter's pass.
Reporter_buildResult(fset, workDir, f) ==
    LET pos     == Position(fset, f.Pos)
        relPath == relativePath(workDir, pos.Filename)
    IN  SarifResult(f.RuleID, f.Message, relPath, pos)

\* AggregatingReporter.buildResult: located through the finding's own FileSet.
FindingWithFset(f, fset) == [Finding |-> f, Fset |-> fset]

AggregatingReporter_buildResult(workDir, f) ==
    LET pos     == Position(f.Fset, f.Finding.Pos)
        relPath == relativePath(workDir, pos.Filename)
    IN  SarifResult(f.Finding.RuleID, f.Finding.Message, relPath, pos)

Reporter_buildResults(fset, workDir, fs) ==
    [i \in DOMAIN fs |-> Reporter_buildResult(fset, workDir, fs[i])]

AggregatingReporter_buildResults(workDir, fs) ==
    [i \in DOMAIN fs |-> AggregatingReporter_buildResult(workDir, fs[i])]

buildRules == <<"sensitive-var", "sensitive-call", "sensitive-struct", "sensitive-field">>

buildTool == [Driver |-> [Name |-> "leakhound", Rules |-> buildRules]]

buildDocument(results) ==
    [Version |-> "2.1.0",
     Runs    |-> <<[Tool              |-> buildTool,
                    Results           |-> results,
                    AutomationDetails |-> [ID |-> "leakhound/analysis"]]>>]

\* AggregatingReporter.AddFindings: one FindingWithFset appended per finding.
addFindingsPrepend(acc, fs, fset) ==
    [i \in DOMAIN fs |-> FindingWithFset(fs[i], fset)] \o acc
addFindings(acc, fs, fset) ==
    acc \o [i \in DOMAIN fs |-> FindingWithFset(fs[i], fset)]

(***************************************************************************)
(* The reporters driven by a script of calls: AddFindings and Report on    *)
(* one AggregatingReporter, Report on a Reporter made for one pass.        *)
(***************************************************************************)
fVar    == Finding(1,  "var",    "sensitive-var")
fCall   == Finding(25, "call",   "sensitive-call")
fStruct == Finding(12, "struct", "sensitive-struct")
fField  == Finding(45, "field",  "sensitive-field")

Batches == {<<>>, <<fVar>>, <<fVar, fCall>>, <<fCall, fVar>>, <<fStruct, fField, fStruct>>}

ReporterCalls ==
    {[op |-> "AddFindings", findings |-> b, fset |-> fs] : b \in Batches, fs \in FileSets}
    \cup {[op |-> "Report", findings |-> b, fset |-> fs] : b \in Batches, fs \in FileSets}
    \cup {[op |-> "AggregatingReport", findings |-> <<>>, fset |-> fsetA]}

MaxCalls == 3

Scripts == UNION {[1..n -> ReporterCalls] : n \in 0..MaxCalls}

InitSarif ==
    /\ \E sc \in Scripts :
          prog = [name |-> "sarif", decls |-> <<>>, script |-> sc, workDir |-> WorkDir]
    /\ pc = "report"
    /\ InitFacts

NextCall(op) ==
    /\ pc = "report"
    /\ callIdx <= Len(prog.script)
    /\ prog.script[callIdx].op = op
    /\ callIdx' = callIdx + 1

AddFindings ==
    /\ NextCall("AddFindings")
    /\ aggregated' = addFindings(aggregated, prog.script[callIdx].findings,
                                 prog.script[callIdx].fset)
    /\ UNCHANGED <<loaded, written, prog, pc, declIdx, sensitiveFields, sensitiveVars,
                   sensitiveFuncs, sensitiveParams, funcDefs, logCalls, pass, changed,
                   visitedFuncs, pending, argIdx, findings>>

AggregatingReport ==
    /\ NextCall("AggregatingReport")
    /\ written' = Append(written,
          buildDocument(AggregatingReporter_buildResults(prog.workDir, aggregated)))
    /\ UNCHANGED <<loaded, aggregated, prog, pc, declIdx, sensitiveFields, sensitiveVars,
                   sensitiveFuncs, sensitiveParams, funcDefs, logCalls, pass, changed,
                   visitedFuncs, pending, argIdx, findings>>

Report ==
    /\ NextCall("Report")
    /\ written' = Append(written,
          buildDocument(Reporter_buildResults(prog.script[callIdx].fset, prog.workDir,
                                              prog.script[callIdx].findings)))
    /\ UNCHANGED <<loaded, aggregated, prog, pc, declIdx, sensitiveFields, sensitiveVars,
                   sensitiveFuncs, sensitiveParams, funcDefs, logCalls, pass, changed,
                   visitedFuncs, pending, argIdx, findings>>

NextSarif == AddFindings \/ AggregatingReport \/ Report

SpecSarif == InitSarif /\ [][NextSarif]_vars

(***************************************************************************)
(* What the calls made so far were given.                                  *)
(***************************************************************************)
Done == IF pc = "report" THEN SubSeq(prog.script, 1, callIdx - 1) ELSE <<>>

\* The findings handed to AddFindings by the first n calls, each with the
\* FileSet of its call.
Passed(n) ==
    Concat([j \in 1..n |->
              IF prog.script[j].op = "AddFindings"
              THEN [i \in DOMAIN prog.script[j].findings |->
                      [Finding |-> prog.script[j].findings[i], Fset |-> prog.script[j].fset]]
              ELSE <<>>])

\* The position in the script of the call that wrote the k-th document.
WriterOf(k) ==
    CHOOSE j \in DOMAIN Done :
       /\ Done[j].op \in {"Report", "AggregatingReport"}
       /\ Cardinality({h \in 1..j : Done[h].op \in {"Report", "AggregatingReport"}}) = k

\* The findings the k-th document was written from, each with its FileSet.
InputOf(k) ==
    LET j == WriterOf(k)
    IN  IF Done[j].op = "AggregatingReport" THEN Passed(j)
        ELSE [i \in DOMAIN Done[j].findings |->
                [Finding |-> Done[j].findings[i], Fset |-> Done[j].fset]]

\* C19: every document written by either reporter has exactly one run, one
\* result per input finding in the input's order, and each result's ruleId is
\* the mapped identifier (LH0001..LH0004) of its finding's rule.
C19_MappedRuleIds ==
    \A k \in DOMAIN written :
       LET in == InputOf(k)
       IN  /\ Len(written[k].Runs) = 1
           /\ Len(written[k].Runs[1].Results) = Len(in)
           /\ \A i \in DOMAIN in :
                 /\ written[k].Runs[1].Results[i].Message.Text = in[i].Finding.Message
                 /\ written[k].Runs[1].Results[i].RuleID = ToSARIFRuleID(in[i].Finding.RuleID)

\* Where a finding lies according to a FileSet, as a SARIF location.
LocatedThrough(workDir, f, fset) ==
    LET pos == Position(fset, f.Pos)
    IN  [uri |-> relativePath(workDir, pos.Filename), line |-> pos.Line, column |-> pos.Column]

LocationOf(result) ==
    [uri    |-> result.Locations[1].PhysicalLocation.ArtifactLocation.URI,
     line   |-> result.Locations[1].PhysicalLocation.Region.StartLine,
     column |-> result.Locations[1].PhysicalLocation.Region.StartColumn]

\* C20: the accumulated list is the concatenation, in call order and in
\* within-call order, of the findings passed to AddFindings, each with the
\* FileSet of its own call; a document written by AggregatingReporter.Report
\* has one run whose results are those findings in that order, each located
\* through its own FileSet.
C20_Accumulation ==
    pc = "report" =>
       /\ aggregated = Passed(callIdx - 1)
       /\ \A k \in DOMAIN written :
             Done[WriterOf(k)].op = "AggregatingReport" =>
                LET in == Passed(WriterOf(k))
                IN  /\ Len(written[k].Runs) = 1
                    /\ Len(written[k].Runs[1].Results) = Len(in)
                    /\ \A i \in DOMAIN in :
                          /\ written[k].Runs[1].Results[i].Message.Text = in[i].Finding.Message
                          /\ Len(written[k].Runs[1].Results[i].Locations) = 1
                          /\ LocationOf(written[k].Runs[1].Results[i]) =
                                LocatedThrough(prog.workDir, in[i].Finding, in[i].Fset)

\* Two AddFindings calls with different FileSets were made, and a document
\* written afterwards holds results located in files of both.
C20_Witness ==
    /\ pc = "report"
    /\ \E a, b \in 1..(callIdx - 1) :
          /\ a < b
          /\ prog.script[a].op = "AddFindings" /\ prog.script[b].op = "AddFindings"
          /\ prog.script[a].fset # prog.script[b].fset
          /\ Len(prog.script[a].findings) >= 2 /\ Len(prog.script[b].findings) >= 1
    /\ \E k \in DOMAIN written :
          /\ Done[WriterOf(k)].op = "AggregatingReport"
          /\ \E i, j \in DOMAIN written[k].Runs[1].Results :
                LocationOf(written[k].Runs[1].Results[i]).uri #
                   LocationOf(written[k].Runs[1].Results[j]).uri

(***************************************************************************)
(* Package config: the loader's validation.  A string is the sequence of   *)
(* its characters, so that the pattern and the identifier test are         *)
(* computed character by character.                                        *)
(***************************************************************************)
maxConfigSize  == 1048576
maxTargets     == 20
maxFunctions   == 50
maxMethods     == 10
maxMethodNames == 50

LowerAscii == {"a", "b", "c", "d", "e", "f", "g", "h", "i", "j", "k", "l", "m", "n", "o", "p", "q", "r", "s", "t", "u", "v", "w", "x", "y", "z"}
UpperAscii == {"A", "B", "C", "D", "E", "F", "G", "H", "I", "J", "K", "L", "M", "N", "O", "P", "Q", "R", "S", "T", "U", "V", "W", "X", "Y", "Z"}
Digits     == {"0", "1", "2", "3", "4", "5", "6", "7", "8", "9"}
\* Letters outside ASCII that unicode.IsLetter accepts.
OtherLetters == {"é"}

\* packagePathPattern = ^[a-z0-9.\-/]+$ : one or more characters of the class,
\* the whole text (no multi-line flag: $ is the end of the text).
packagePathPattern(str) ==
    /\ Len(str) >= 1
    /\ \A i \in DOMAIN str : str[i] \in LowerAscii \cup Digits \cup {".", "-", "/"}

Keywords ==
    {<<"b", "r", "e", "a", "k">>, <<"d", "e", "f", "a", "u", "l", "t">>, <<"f", "u", "n", "c">>,
     <<"i", "n", "t", "e", "r", "f", "a", "c", "e">>, <<"s", "e", "l", "e", "c", "t">>, <<"c", "a", "s", "e">>,
     <<"d", "e", "f", "e", "r">>, <<"g", "o">>, <<"m", "a", "p">>,
     <<"s", "t", "r", "u", "c", "t">>, <<"c", "h", "a", "n">>, <<"e", "l", "s", "e">>,
     <<"g", "o", "t", "o">>, <<"p", "a", "c", "k", "a", "g", "e">>, <<"s", "w", "i", "t", "c", "h">>,
     <<"c", "o", "n", "s", "t">>, <<"f", "a", "l", "l", "t", "h", "r", "o", "u", "g", "h">>, <<"i", "f">>,
     <<"r", "a", "n", "g", "e">>, <<"t", "y", "p", "e">>, <<"c", "o", "n", "t", "i", "n", "u", "e">>,
     <<"f", "o", "r">>, <<"i", "m", "p", "o", "r", "t">>, <<"r", "e", "t", "u", "r", "n">>,
     <<"v", "a", "r">>}

\* token.IsIdentifier: not empty, not a keyword, letters, digits and
\* underscores only, the first character not a digit.
IsIdentifier(name) ==
    /\ name # <<>>
    /\ name \notin Keywords
    /\ \A i \in DOMAIN name :
          \/ name[i] \in LowerAscii \cup UpperAscii \cup OtherLetters
          \/ name[i] = "_"
          \/ i # 1 /\ name[i] \in Digits

validatePackagePath(pkg) ==
    IF ~packagePathPattern(pkg) THEN "invalid package path" ELSE "nil"

validateIdentifier(name) ==
    IF ~IsIdentifier(name) THEN "invalid identifier" ELSE "nil"

\* strings.TrimPrefix(receiver, "*") removes one leading "*" if there is one.
TrimPrefixStar(receiver) ==
    IF receiver # <<>> /\ Head(receiver) = "*" THEN Tail(receiver) ELSE receiver

validateReceiverNoTrim(receiver) ==
    IF ~IsIdentifier(receiver) THEN "invalid receiver type" ELSE "nil"
validateReceiver(receiver) ==
    IF ~IsIdentifier(TrimPrefixStar(receiver)) THEN "invalid receiver type" ELSE "nil"

\* The error of the first element of names that validateIdentifier rejects.
RECURSIVE firstInvalidName(_, _)
firstInvalidName(names, i) ==
    IF i > Len(names) THEN "nil"
    ELSE IF validateIdentifier(names[i]) # "nil" THEN validateIdentifier(names[i])
    ELSE firstInvalidName(names, i + 1)

validateMethodConfig(method) ==
    IF method.Receiver = <<>> THEN "receiver is required"
    ELSE IF validateReceiver(method.Receiver) # "nil" THEN "invalid receiver"
    ELSE IF Len(method.Names) > maxMethodNames THEN "too many method names"
    ELSE IF firstInvalidName(method.Names, 1) # "nil" THEN "invalid method name"
    ELSE "nil"

RECURSIVE firstInvalidMethod(_, _)
firstInvalidMethod(methods, j) ==
    IF j > Len(methods) THEN "nil"
    ELSE IF validateMethodConfig(methods[j]) # "nil" THEN validateMethodConfig(methods[j])
    ELSE firstInvalidMethod(methods, j + 1)

validateTarget(target) ==
    IF target.Package = <<>> THEN "package path is required"
    ELSE IF validatePackagePath(target.Package) # "nil" THEN "invalid package path"
    ELSE IF Len(target.Functions) = 0 /\ Len(target.Methods) = 0
         THEN "at least one of 'functions' or 'methods' must be specified"
    ELSE IF Len(target.Functions) > maxFunctions THEN "too many functions"
    ELSE IF firstInvalidName(target.Functions, 1) # "nil" THEN "invalid function name"
    ELSE IF Len(target.Methods) > maxMethods THEN "too many method configs"
    ELSE firstInvalidMethod(target.Methods, 1)

RECURSIVE firstInvalidTarget(_, _)
firstInvalidTarget(targets, i) ==
    IF i > Len(targets) THEN "nil"
    ELSE IF validateTarget(targets[i]) # "nil" THEN validateTarget(targets[i])
    ELSE firstInvalidTarget(targets, i + 1)

\* ValidateConfig(config *Config): the pointer is <<>> when nil and <<c>> when
\* it points to the Config c.
ValidateConfig(config) ==
    IF config = <<>> THEN "config is nil"
    ELSE IF Len(config[1].Targets) > maxTargets THEN "too many targets"
    ELSE firstInvalidTarget(config[1].Targets, 1)

EmptyConfig == [Targets |-> <<>>]

\* LoadConfig(path) in a working directory: file says whether the path
\* resolves inside it, whether a file is there, its size and whether the YAML
\* decoder accepts its content; decoded is the Config it decodes to.
LoadConfig(path, file, decoded) ==
    IF path = "" /\ ~file.exists THEN [config |-> EmptyConfig, err |-> "nil"]
    ELSE IF path # "" /\ ~file.absolute /\ ~file.inside
         THEN [config |-> EmptyConfig, err |-> "config file must be within the working directory"]
    ELSE IF ~file.exists THEN [config |-> EmptyConfig, err |-> "failed to stat config file"]
    ELSE IF file.size > maxConfigSize
         THEN [config |-> EmptyConfig, err |-> "config file size exceeds maximum allowed size"]
    ELSE IF ~file.parses
         THEN [config |-> EmptyConfig, err |-> "failed to parse config file"]
    ELSE IF ValidateConfig(<<decoded>>) # "nil"
         THEN [config |-> EmptyConfig, err |-> "invalid configuration"]
    ELSE [config |-> decoded, err |-> "nil"]

(***************************************************************************)
(* Configurations handed to the loader: names, package paths and receivers *)
(* on both sides of every test, lists at and one past every limit.         *)
(***************************************************************************)
Rep(n, x) == [i \in 1..n |-> x]

nInfo == <<"I", "n", "f", "o">>
IdentInputs ==
    {nInfo, <<"_", "x", "1">>, <<"é">>, <<"1", "a">>, <<"a", "-", "b">>,
     <<"f", "u", "n", "c">>, <<>>}

PackageInputs ==
    {<<"a", ".", "b", "/", "c", "-", "1">>, <<>>, <<"A", "b">>, <<"a", " ", "b">>,
     <<"a", "_", "b">>, <<"a", "\n">>}

ReceiverInputs ==
    {<<"*", "L">>, <<"L">>, <<>>, <<"*">>, <<"*", "*", "L">>, <<"L", "*">>, <<"*", "1">>}

FunctionLists ==
    {<<>>, Rep(maxFunctions, nInfo), Rep(maxFunctions + 1, nInfo)}
    \cup {<<n>> : n \in IdentInputs}
    \cup {<<nInfo, n>> : n \in IdentInputs}

MethodGroup(receiver, names) == [Receiver |-> receiver, Names |-> names]

goodGroup == MethodGroup(<<"*", "L">>, <<nInfo>>)

MethodGroups ==
    {MethodGroup(r, <<nInfo>>) : r \in ReceiverInputs}
    \cup {MethodGroup(<<"L">>, ns) :
            ns \in {<<>>, <<nInfo, <<"f", "u", "n", "c">>>>, <<<<>>>>,
                    Rep(maxMethodNames, nInfo), Rep(maxMethodNames + 1, nInfo)}}

MethodLists ==
    {<<>>, Rep(maxMethods, goodGroup), Rep(maxMethods + 1, goodGroup)}
    \cup {<<g>> : g \in MethodGroups}
    \cup {<<goodGroup, g>> : g \in MethodGroups}

TargetConfig(pkg, functions, methods) ==
    [Package |-> pkg, Functions |-> functions, Methods |-> methods]

TargetInputs ==
    {TargetConfig(p, f, m) : p \in PackageInputs, f \in FunctionLists, m \in MethodLists}

goodTarget == TargetConfig(<<"a", ".", "b", "/", "c", "-", "1">>, <<nInfo>>, <<goodGroup>>)
zeroTarget == TargetConfig(<<>>, <<>>, <<>>)

ConfigInputs ==
    {EmptyConfig,
     [Targets |-> Rep(maxTargets, goodTarget)],
     [Targets |-> Rep(maxTargets + 1, goodTarget)],
     [Targets |-> Rep(maxTargets + 1, zeroTarget)]}
    \cup {[Targets |-> <<t>>] : t \in TargetInputs}
    \cup {[Targets |-> <<goodTarget, t>>] : t \in TargetInputs}

\* The pointers ValidateConfig is called with.
ConfigPointers == {<<>>} \cup {<<c>> : c \in ConfigInputs}

ConfigFile(absolute, inside, exists, size, parses) ==
    [absolute |-> absolute, inside |-> inside, exists |-> exists, size |-> size,
     parses |-> parses]

\* The paths LoadConfig is called with and what is found there.
FileInputs ==
    {[path |-> "", file |-> ConfigFile(FALSE, TRUE, FALSE, 0, FALSE)],
     [path |-> "../conf.yaml", file |-> ConfigFile(FALSE, FALSE, TRUE, 100, TRUE)],
     [path |-> "conf.yaml", file |-> ConfigFile(FALSE, TRUE, FALSE, 0, FALSE)],
     [path |-> "conf.yaml", file |-> ConfigFile(FALSE, TRUE, TRUE, maxConfigSize + 1, TRUE)],
     [path |-> "conf.yaml", file |-> ConfigFile(FALSE, TRUE, TRUE, 100, FALSE)],
     [path |-> "conf.yaml", file |-> ConfigFile(FALSE, TRUE, TRUE, maxConfigSize, TRUE)],
     [path |-> "/etc/conf.yaml", file |-> ConfigFile(TRUE, FALSE, TRUE, 100, TRUE)],
     [path |-> "", file |-> ConfigFile(FALSE, TRUE, TRUE, 100, TRUE)]}

InitConfig ==
    /\ \E c \in ConfigPointers, f \in FileInputs :
          prog = [name |-> "config", decls |-> <<>>, config |-> c, path |-> f.path,
                  file |-> f.file]
    /\ pc = "config"
    /\ InitFacts

ConfigUnchanged ==
    UNCHANGED <<aggregated, written, prog, declIdx, sensitiveFields, sensitiveVars,
                sensitiveFuncs, sensitiveParams, funcDefs, logCalls, pass, changed,
                visitedFuncs, pending, callIdx, argIdx, findings>>

\* The Config the decoder fills from the file: LoadConfig validates the
\* address of its own variable, which is never nil.
Decoded == IF prog.config = <<>> THEN EmptyConfig ELSE prog.config[1]

\* ValidateConfig(&config) called on the configuration itself.
CallValidateConfig ==
    /\ pc = "config"
    /\ loaded' = [config |-> Decoded, err |-> ValidateConfig(prog.config)]
    /\ pc' = "validated"
    /\ ConfigUnchanged

CallLoadConfig ==
    /\ pc = "config"
    /\ loaded' = LoadConfig(prog.path, prog.file, Decoded)
    /\ pc' = "loaded"
    /\ ConfigUnchanged

NextConfig == CallValidateConfig \/ CallLoadConfig

SpecConfig == InitConfig /\ [][NextConfig]_vars

\* The conditions under which a configuration is acceptable.
AcceptableGroup(m) ==
    /\ m.Receiver # <<>>
    /\ IsIdentifier(IF Head(m.Receiver) = "*" THEN Tail(m.Receiver) ELSE m.Receiver)
    /\ Len(m.Names) <= 50
    /\ \A i \in DOMAIN m.Names : IsIdentifier(m.Names[i])

AcceptableTarget(t) ==
    /\ t.Package # <<>>
    /\ packagePathPattern(t.Package)
    /\ Len(t.Functions) >= 1 \/ Len(t.Methods) >= 1
    /\ Len(t.Functions) <= 50
    /\ \A i \in DOMAIN t.Functions : IsIdentifier(t.Functions[i])
    /\ Len(t.Methods) <= 10
    /\ \A j \in DOMAIN t.Methods : AcceptableGroup(t.Methods[j])

Acceptable(config) ==
    /\ config # <<>>
    /\ Len(config[1].Targets) <= 20
    /\ \A i \in DOMAIN config[1].Targets : AcceptableTarget(config[1].Targets[i])

\* The file of the run was found, is small enough and was decoded.
ReachedValidation ==
    /\ prog.file.exists
    /\ prog.path = "" \/ prog.file.absolute \/ prog.file.inside
    /\ prog.file.size <= maxConfigSize
    /\ prog.file.parses

\* C21: ValidateConfig returns nil exactly for the acceptable configurations
\* (non-nil, at most 20 targets, each with a package path of the pattern, some
\* function or method, at most 50 identifier functions, at most 10 method
\* groups with an identifier receiver after one optional '*' and at most 50
\* identifier names); for every other one it returns an error and LoadConfig
\* returns the empty Config with an error.
C21_ValidateConfig ==
    /\ pc = "validated" => (loaded.err = "nil" <=> Acceptable(prog.config))
    /\ (pc = "loaded" /\ ReachedValidation) =>
          IF Acceptable(<<Decoded>>)
          THEN loaded = [config |-> Decoded, err |-> "nil"]
          ELSE loaded.config = EmptyConfig /\ loaded.err # "nil"

\* A file holding a configuration whose only defect is a receiver with two
\* leading '*' was loaded and rejected.
C21_Witness ==
    /\ pc = "loaded"
    /\ ReachedValidation
    /\ loaded.err = "invalid configuration"
    /\ Len(Decoded.Targets) = 1
    /\ Len(Decoded.Targets[1].Methods) = 1
    /\ Decoded.Targets[1].Methods[1] = MethodGroup(<<"*", "*", "L">>, <<nInfo>>)
    /\ Decoded.Targets[1].Functions = <<nInfo>>
    /\ packagePathPattern(Decoded.Targets[1].Package)

(***************************************************************************)
(* Phase ordering.                                                         *)
(***************************************************************************)
\* Every tagged field of every struct type the package declares.
CompleteCatalog ==
    UNION {CollectFromTypeSpec(prog.decls[i], {}) :
              i \in {j \in DOMAIN prog.decls : prog.decls[j].k = "type"}}

\* The declaration is a function whose body holds an assignment or a return.
Seeds(d) ==
    /\ d.k = "func"
    /\ \E n \in Range(InspectAll(d.body)) : n.k \in {"assign", "return"}

\* The variables defined by p := u.f where f is a tagged field of a struct
\* type declared in the package.
DefinedFromTaggedField ==
    UNION {{a.lhs[i].obj.id : i \in {j \in DOMAIN a.lhs :
                /\ j <= Len(a.rhs)
                /\ a.lhs[j].k = "ident"
                /\ a.rhs[j].k = "sel"
                /\ a.rhs[j].x.k = "ident"
                /\ a.rhs[j].x.ty.named # "none"
                /\ TypeOf(a.rhs[j].x.ty.named).pkg = ThisPkg
                /\ TypeSpec(a.rhs[j].x.ty.named) \in Range(prog.decls)
                /\ <<TypeOf(a.rhs[j].x.ty.named).name, a.rhs[j].f>> \in CompleteCatalog}} :
           a \in {n \in UNION {Range(InspectAll(f.body)) : f \in FuncDecls(prog)} :
                     n.k = "assign"}}

\* C22: the field catalog is complete before any assignment or return is
\* seeded, so a variable defined from a tagged field is tainted wherever the
\* struct type is declared relative to the function.
C22_CatalogBeforeSeeding ==
    /\ (pc = "collect" /\ declIdx <= Len(prog.decls) /\ Seeds(prog.decls[declIdx]))
          => sensitiveFields = CompleteCatalog
    /\ pc \in {"analyze", "done"} => DefinedFromTaggedField \subseteq DOMAIN sensitiveVars

(***************************************************************************)
(* The fixed-point phase on functions that call themselves and each other. *)
(***************************************************************************)
\* func ping(v string) { slog.Info("m", v); pong(v) }
ping ==
    FuncDecl(LocalFunc("ping"), <<Param(2001, "ping", "v")>>, TRUE, <<
        ExprStmt(PkgCall(2002, "slog", SlogInfo, <<Lit(2003), Use(2004, "ping", "v", Basic)>>)),
        ExprStmt(LocalCall(2005, "pong", <<Use(2006, "ping", "v", Basic)>>, Basic)) >>)

\* func pong(v string) { log.Println(v); ping(v) }
pong ==
    FuncDecl(LocalFunc("pong"), <<Param(2011, "pong", "v")>>, TRUE, <<
        ExprStmt(PkgCall(2012, "log", LogPrintln, <<Use(2013, "pong", "v", Basic)>>)),
        ExprStmt(LocalCall(2014, "ping", <<Use(2015, "pong", "v", Basic)>>, Basic)) >>)

\* func self(v string) { self(v); slog.Info("m", v) }
self ==
    FuncDecl(LocalFunc("self"), <<Param(2021, "self", "v")>>, TRUE, <<
        ExprStmt(LocalCall(2022, "self", <<Use(2023, "self", "v", Basic)>>, Basic)),
        ExprStmt(PkgCall(2024, "slog", SlogInfo, <<Lit(2025), Use(2026, "self", "v", Basic)>>)) >>)

\* func testRecursive() { u := User{}; p := u.Password; ping(p); self(p) }
testRecursive ==
    FuncDecl(LocalFunc("testRecursive"), <<>>, TRUE, <<
        Assign(<<Decl(2031, "testRecursive", "u")>>, <<Lit(2032)>>),
        Assign(<<Decl(2033, "testRecursive", "p")>>,
               <<Field(Use(2034, "testRecursive", "u", ValT("User")), "Password", Basic)>>),
        ExprStmt(LocalCall(2035, "ping", <<Use(2036, "testRecursive", "p", Basic)>>, Basic)),
        ExprStmt(LocalCall(2037, "self", <<Use(2038, "testRecursive", "p", Basic)>>, Basic)) >>)

RecursivePrograms ==
    {Program("recursive", <<TypeSpec("User")>> \o o) : o \in Perms({ping, pong, self, testRecursive})}

InitFixpoint == \E p \in ChainPrograms \cup RecursivePrograms : InitState(p)

\* The run is one goroutine that keeps executing until Collect has returned:
\* weak fairness of Next, in which a step is possible whenever the phase has
\* not ended, so that it reads "the phase has ended or steps keep being taken".
SpecFixpoint ==
    /\ InitFixpoint
    /\ [][Next]_vars
    /\ WF_vars(BeginPass \/ EndPass \/ EndDataFlow)
    /\ ([]<>(pc \in {"analyze", "done", "crashed"}) \/ []<><<Next>>_vars)

Tainted == Cardinality(DOMAIN sensitiveVars)

\* C23: the fixed-point phase terminates and runs at most 5 rounds; a round
\* starts with no growth noted, notes growth exactly when a function's
\* analysis makes the number of tainted variables larger, and is followed by
\* another round exactly if it noted growth and fewer than 5 rounds were run;
\* in a round each registered function is analysed at most once, recursive
\* and mutually recursive functions included.
C23_FixedPointTerminates ==
    /\ <>(pc \in {"analyze", "done", "crashed"})
    /\ [](pass <= 5)
    /\ [](pc = "dataflow" => (ENABLED BeginPass <=> (pass < 5 /\ (pass = 0 \/ changed))))
    /\ [][(pc = "dataflow" /\ pc' = "round") => (~changed' /\ visitedFuncs' = {})]_vars
    /\ [][(pc = "round" /\ pc' = "round") =>
             /\ changed' <=> (changed \/ Tainted' > Tainted)
             /\ \E f \in DOMAIN funcDefs \ visitedFuncs : visitedFuncs' = visitedFuncs \cup {f}]_vars
    /\ [][(pc = "round" /\ pc' = "dataflow") =>
             /\ visitedFuncs = DOMAIN funcDefs
             /\ changed' = changed /\ Tainted' = Tainted /\ pass' = pass + 1]_vars

\* The recursive package went through its rounds and every parameter of the
\* recursive functions is tainted.
C23_Witness ==
    /\ prog.name = "recursive"
    /\ pc = "done"
    /\ pass >= 2
    /\ {"ping.v", "pong.v", "self.v"} \subseteq DOMAIN sensitiveVars

\* C24: no step removes a key of sensitiveVars or of sensitiveFuncs, and at
\* all times every parameter recorded in sensitiveParams is in sensitiveVars
\* with the same source.
C24_Monotone ==
    /\ [][/\ DOMAIN sensitiveVars \subseteq DOMAIN sensitiveVars'
          /\ DOMAIN sensitiveFuncs \subseteq DOMAIN sensitiveFuncs']_vars
    /\ [](\A v \in DOMAIN sensitiveParams :
             v \in DOMAIN sensitiveVars /\ sensitiveVars[v] = sensitiveParams[v])

\* A second round has run on a package in which one function is called with
\* tainted arguments of two different fields, and its parameter is recorded.
C24_Witness ==
    /\ pc = "done"
    /\ pass >= 2
    /\ \E f \in DOMAIN funcDefs : f = "callWithKey"
    /\ "logIt.v" \in DOMAIN sensitiveParams
    /\ Cardinality(DOMAIN sensitiveVars) > Cardinality(DOMAIN sensitiveParams)

(***************************************************************************)
(* Arguments and parameters.                                               *)
(***************************************************************************)
\* The parameter group the i-th argument is checked against: the i-th one,
\* unless a group without names comes before it, at which the walk stays.
GroupIndex(params, i) ==
    LET unnamed == {j \in DOMAIN params : Len(params[j].names) = 0}
        stuck == IF unnamed = {} THEN Len(params) + 1
                 ELSE CHOOSE j \in unnamed : \A h \in unnamed : j <= h IN
    IF i < stuck THEN i ELSE stuck

\* The same-package calls in the body of f whose callee is registered.
CallsIn(f) ==
    {n \in Range(InspectAll(f.body)) :
        /\ n.k = "call"
        /\ getFunctionObject(n.fun).kind = "func"
        /\ getFunctionObject(n.fun).pkg = ThisPkg
        /\ getFunctionObject(n.fun).id \in DOMAIN funcDefs}

\* <<call, i, name>>: the defining identifier name is in the parameter group
\* of the i-th argument of call.
Mappings(f) ==
    UNION {UNION {{<<c, i, funcDefs[getFunctionObject(c.fun).id]
                            .params[GroupIndex(funcDefs[getFunctionObject(c.fun).id].params, i)].names[h]>> :
                      h \in DOMAIN funcDefs[getFunctionObject(c.fun).id]
                              .params[GroupIndex(funcDefs[getFunctionObject(c.fun).id].params, i)].names} :
                  i \in {j \in DOMAIN c.args :
                           GroupIndex(funcDefs[getFunctionObject(c.fun).id].params, j)
                              <= Len(funcDefs[getFunctionObject(c.fun).id].params)}} :
           c \in CallsIn(f)}

ExtendedSource(s, arg, name) ==
    [FieldName |-> s.FieldName, Position |-> arg.pos,
     FlowPath |-> s.FlowPath \o <<<<"parameter '", name, "'">>>>]

\* C25: when a function's calls are analysed, every named parameter in the
\* group of an argument that classifies as tainted with source s is recorded
\* in sensitiveParams and sensitiveVars with s's field name, the argument's
\* position and s's flow path extended by the one step for that parameter;
\* the sources of the arguments are left as they were, and nothing else is
\* recorded: arguments past the last parameter group are not mapped.
C25_ArgumentMapping ==
    [][(pc = "round" /\ visitedFuncs' # visitedFuncs) =>
          LET f == funcDefs[CHOOSE g \in visitedFuncs' : g \notin visitedFuncs]
              before == CurTracker
              hits == {m \in Mappings(f) :
                          /\ m[3].obj.kind = "var"
                          /\ checkSensitiveExpr(m[1].args[m[2]], before) # <<>>}
              recorded(m) == ExtendedSource(checkSensitiveExpr(m[1].args[m[2]], before)[1],
                                            m[1].args[m[2]], m[3].name)
          IN  /\ \A m \in hits :
                    /\ m[3].obj.id \in DOMAIN sensitiveVars'
                    /\ m[3].obj.id \in DOMAIN sensitiveParams'
                    /\ sensitiveVars'[m[3].obj.id] = sensitiveParams'[m[3].obj.id]
                    /\ sensitiveVars'[m[3].obj.id] \in
                          {recorded(o) : o \in {h \in hits : h[3].obj.id = m[3].obj.id}}
              /\ \A v \in DOMAIN sensitiveVars' :
                    (\A m \in hits : m[3].obj.id # v) =>
                       v \in DOMAIN sensitiveVars /\ sensitiveVars'[v] = sensitiveVars[v]
              /\ \A v \in DOMAIN sensitiveParams' :
                    (\A m \in hits : m[3].obj.id # v) =>
                       v \in DOMAIN sensitiveParams /\ sensitiveParams'[v] = sensitiveParams[v]]_vars

\* join(p, "x", k) was analysed: a and b carry the source of p extended by
\* their own step, and c, whose group the literal was checked against, and
\* for which no group was left when k was reached, carries none.
C25_Witness ==
    /\ prog.name = "groups"
    /\ pc = "done"
    /\ {"join.a", "join.b"} \subseteq DOMAIN sensitiveParams
    /\ sensitiveVars["join.b"].FlowPath =
          sensitiveVars["testGroups.p"].FlowPath \o <<ParameterStep("b")>>
    /\ sensitiveVars["join.b"].Position = 2121
    /\ "join.c" \notin DOMAIN sensitiveVars

\* Some call of the package passes, at the position of the parameter itself
\* (for a variadic parameter: at its position or after it), an argument that
\* classifies as tainted.
OwnArgumentTainted(id) ==
    \E f \in FuncDecls(prog) : \E c \in LocalCalls(prog) :
       /\ getFunctionObject(c.fun).id = f.obj.id
       /\ \E j \in DOMAIN FlatParams(f) : \E i \in DOMAIN c.args :
             /\ FlatParams(f)[j].obj.id = id
             /\ \/ i = j
                \/ /\ f.params[Len(f.params)].variadic
                   /\ j = Len(FlatParams(f))
                   /\ i > j
             /\ checkSensitiveExpr(c.args[i], CurTracker) # <<>>

\* C26: a parameter is tainted only if some call of its function passes a
\* tainted argument at the parameter's own position, also when several
\* parameters are declared in one group.
C26_PositionalSoundness ==
    pc \in {"analyze", "done"} =>
       \A id \in (DOMAIN sensitiveParams) \cup (AllParams(prog) \cap DOMAIN sensitiveVars) :
          OwnArgumentTainted(id)

(***************************************************************************)
(* Closure of the facts at the end of Phase 1.                             *)
(***************************************************************************)
\* The variables defined by x := e in a function of the package where e
\* classifies as tainted under the facts as they are.
DefinedFromTainted ==
    UNION {{a.lhs[i].obj.id : i \in {j \in DOMAIN a.lhs :
                /\ j <= Len(a.rhs)
                /\ a.lhs[j].k = "ident"
                /\ Defs(a.lhs[j]).kind = "var"
                /\ checkSensitiveExpr(a.rhs[j], CurTracker) # <<>>}} :
           a \in {n \in UNION {Range(InspectAll(f.body)) : f \in FuncDecls(prog)} :
                     n.k = "assign"}}

\* The functions with a return of one result that classifies as tainted under
\* the facts as they are.
ReturningTainted ==
    {f.obj.id : f \in {g \in FuncDecls(prog) :
        /\ g.obj.kind = "func"
        /\ \E r \in OwnReturns(g.body) :
              Len(r.results) = 1 /\ checkSensitiveExpr(r.results[1], CurTracker) # <<>>}}

\* C27: at the end of Phase 1 every variable defined from an expression that
\* classifies as tainted under the final facts is tainted, and every function
\* returning such an expression as its one result is recorded.
C27_ClosedFacts ==
    pc \in {"analyze", "done"} =>
       /\ DefinedFromTainted \subseteq DOMAIN sensitiveVars
       /\ ReturningTainted \subseteq DOMAIN sensitiveFuncs

(***************************************************************************)
(* Returns of function literals.                                           *)
(***************************************************************************)
\* A return statement of the function itself, outside any function literal,
\* has exactly one result and that result classifies as tainted.
OwnReturnTainted(f) ==
    \E r \in OwnReturns(f.body) :
        Len(r.results) = 1 /\ checkSensitiveExpr(r.results[1], CurTracker) # <<>>

\* C28: a function is in sensitiveFuncs only if one of its own return
\* statements with exactly one result classifies as sensitive; a return inside
\* a function literal of its body never marks the enclosing function.
C28_OwnReturnsOnly ==
    \A f \in FuncDecls(prog) :
        f.obj.id \in DOMAIN sensitiveFuncs => OwnReturnTainted(f)

(***************************************************************************)
(* Findings of one analysis.                                               *)
(***************************************************************************)
\* C29: one analysis never emits two findings with the same position and
\* rule, even when a sink call stands in the argument of another sink call.
C29_NoDuplicateFinding ==
    \A i, j \in DOMAIN findings :
        (findings[i].Pos = findings[j].Pos /\ findings[i].RuleID = findings[j].RuleID)
            => i = j

(***************************************************************************)
(* Termination of the field lookup through embedded structs.               *)
(***************************************************************************)
\* The check of the argument at hand ran out of stack in the field lookup.
LookupOverflows ==
    LET fs == CheckArgForSensitiveData(CurArg, CurTracker) IN
    \E i \in DOMAIN fs : fs[i] = StackOverflow(fs[i].Pos)

\* C30: the lookup of a selected field through embedded structs terminates
\* for every named struct type and field name, also when the embeddings form
\* a cycle through pointers and the field is declared after the embedded
\* member: the analysis never dies in it.
C30_LookupTerminates ==
    ~(pc = "crashed" /\ logCalls # <<>> /\ LookupOverflows)


====
